---------------------------- MODULE Spec2Model ----------------------------
(***************************************************************************)
(* Model of aqt/installer.py: run_installer (the orchestrator of the       *)
(* concurrent fetch-verify-extract pipeline), the worker tasks it          *)
(* dispatches through multiprocessing.Pool.starmap, and the log listener   *)
(* that drains the shared queue.                                           *)
(*                                                                         *)
(* Library semantics the code relies on, modelled as CPython implements    *)
(* them:                                                                   *)
(*  - Pool.starmap splits the task list into chunks, and its result        *)
(*    becomes ready only once ALL chunks are done; only the first          *)
(*    exception is stored and it is raised when the result is ready        *)
(*    (multiprocessing.pool.MapResult._set).                               *)
(*  - An exception inside a chunk ends that chunk: its remaining tasks     *)
(*    are never run (mapstar/starmapstar build a list in one call).        *)
(*  - QueueListener.stop() enqueues a sentinel itself and then joins the   *)
(*    listener thread; the thread leaves its loop at the first sentinel.   *)
(*  - try/except picks the first except clause whose class the exception   *)
(*    is an instance of; finally runs on every exit of the try statement.  *)
(***************************************************************************)
EXTENDS Integers, Sequences, FiniteSets, TLC

\* ------------------------------------------------------------------ bounds
MaxPackages == 2
MaxConcurrency == 2
MaxRetries == 2

\* --------------------------------------------------------------- variables
VARIABLES
    dry_run,       \* run_installer's dry_run argument
    nArchives,     \* len(archives)
    concurrency,   \* Settings.concurrency
    is64,          \* is_64bit()
    pc,            \* position of the controlling process inside run_installer
    listener,      \* the listener thread: "none", "running", "exited"
    queue,         \* the shared log queue (FIFO)
    emitted,       \* records the listener re-emitted, in order
    pool,          \* "none", "running", "closed", "terminated", + "_joined"
    poolProcs,     \* number of worker processes of the pool
    maxtasks,      \* the pool's maxtasksperchild
    task,          \* state of each worker task
    firstExc,      \* MapResult._value when a chunk failed: the first exception
    exc,           \* the exception the try block raised
    pending,       \* the error the except clause raised, held while finally runs
    surfaced,      \* errors that reached the caller, in order
    enqCalls,      \* calls of listener.enqueue_sentinel() made by run_installer
    stopCalls,     \* calls of listener.stop() made by run_installer
    sentBefore,    \* history: records put on the queue before any sentinel
    enospcSeen,    \* history: some worker task failed with OSError(ENOSPC)
    inFlightAtFail, \* history: tasks running when the first failure was stored
    mainLog,       \* lines the controlling process logged itself
    keep,          \* run_installer's keep argument
    pkgs,          \* archives: what the dry run reads of each QtPackage
    tasks,         \* the argument tuples run_installer built for starmap
    staged,        \* packages whose archive file is in archive_dest
    extractCount,  \* how many times each package was extracted under base_dir
    \* one worker task (installer) seen step by step
    w_pc,          \* position inside installer; "idle" when no task is followed
    ignore_hash,   \* Settings.ignore_hash
    max_retries,   \* Settings.max_retries_on_checksum_error
    command,       \* the command argument: "None" or an external 7z tool
    content,       \* what the downloaded file is: tar, zip, both, 7z, other
    ext,           \* the extension of the archive's file name
    hash,          \* the local `hash`: "unset", "None" or the fetched value "H"
    hashCalls,     \* calls of get_hash
    attempt,       \* the index i of the retry_on_errors loop
    base,          \* the base URL retry_on_bad_connection is calling with
    calls,         \* the calls of download_bin: base URL, hash passed, outcome
    archive,       \* the staged file: "absent", "partial", "present", "deleted"
    strategies,    \* the extraction strategies that ran, in order
    extracted,     \* the extraction succeeded
    wlog,          \* what the task logged, in order
    werr,          \* the exception that left installer, or "none"
    proc,          \* the failed run of the external command: exit code, output
    wmsg,          \* the message of the exception that left installer
    steps,         \* the steps of installer that ran, in order
    handlers,      \* the handlers of the worker process's root logger
    \* the command line: Cli.run calling run_install_qt
    c_pc,          \* position inside Cli.run / run_install_qt; "idle" when unused
    c_args,        \* the args namespace, which run_install_qt mutates
    c_env,         \* platform, installed desktop Qt, settings
    c_stack,       \* the frames of run_install_qt, innermost last
    c_calls,       \* args as seen on each entry of run_install_qt
    c_installs,    \* the calls of run_installer and what they staged where
    c_dirs,        \* directories created by choose_archive_dest
    c_exc,         \* the exception travelling up to Cli.run, or "none"
    c_code,        \* what Cli.run returned: <<>> before it returns, then <<code>>
    c_trace,       \* the calls of Updater.update and the lines the subcommand logged
    stg_archive,   \* qt_package.archive of each task of a batch: a file name
    stg_pc,        \* where each of these tasks is
    stg_files,     \* archive_dest: file name -> the task whose download it holds, 0: no file
    stg_read,      \* what each task found in its staged file when it extracted
    external,      \* args.external: "None" or the command given with --external
    EXT7Z,         \* TRUE when `import py7zr` failed
    found,         \* what running [command, "--help"] does, for each command
    sevenzip,      \* <<>>, then <<what _set_sevenzip returned>>
    sz_exc,        \* the exception that left _set_sevenzip, or "none"
    sz_pc          \* "idle", "start", "returned", "raised", "task", "extract"

vars == <<dry_run, nArchives, concurrency, is64, pc, listener, queue, emitted,
          pool, poolProcs, maxtasks, task, firstExc, exc, pending, surfaced,
          enqCalls, stopCalls, sentBefore, enospcSeen, inFlightAtFail, mainLog,
          keep, pkgs, tasks, staged, extractCount,
          w_pc, ignore_hash, max_retries, command, content, ext, hash, hashCalls,
          attempt, base, calls, archive, strategies, extracted, wlog, werr,
          proc, wmsg, steps, handlers,
          c_pc, c_args, c_env, c_stack, c_calls, c_installs, c_dirs, c_exc, c_code,
          c_trace,
          stg_archive, stg_pc, stg_files, stg_read,
          external, EXT7Z, found, sevenzip, sz_exc, sz_pc>>

\* The variables of the view of the archive files staged by a batch.
staging == <<stg_archive, stg_pc, stg_files, stg_read>>

\* No batch is followed file by file.
StagingIdle ==
    /\ stg_archive = <<>>
    /\ stg_pc = <<>>
    /\ stg_files = <<>>
    /\ stg_read = <<>>

\* The variables of the choice of the 7z extractor.
szip == <<external, EXT7Z, found, sevenzip, sz_exc, sz_pc>>

\* _set_sevenzip is not followed.
SzipIdle ==
    /\ external = "None"
    /\ EXT7Z = FALSE
    /\ found = <<>>
    /\ sevenzip = <<>>
    /\ sz_exc = "none"
    /\ sz_pc = "idle"

\* The variables outside run_installer, one worker task and the command line.
rest == <<staging, szip>>

RestIdle == StagingIdle /\ SzipIdle

\* ------------------------------------------------------------- exceptions
NoExc == [cls |-> "none", errno |-> "none", origin |-> 0]

Exc(c, e, o) == [cls |-> c, errno |-> e, origin |-> o]

\* Python's built-in hierarchy for the classes run_installer's clauses name.
\* "Exception" stands for any Exception that is neither OSError nor MemoryError.
Bases(c) ==
    CASE c = "PermissionError"   -> {"PermissionError", "OSError", "Exception", "BaseException"}
      [] c = "OSError"           -> {"OSError", "Exception", "BaseException"}
      [] c = "MemoryError"       -> {"MemoryError", "Exception", "BaseException"}
      [] c = "Exception"         -> {"Exception", "BaseException"}
      [] c = "KeyboardInterrupt" -> {"KeyboardInterrupt", "BaseException"}
      [] c = "Bad7zFile"         -> {"Bad7zFile", "Exception", "BaseException"}
      [] OTHER                   -> {}

IsInstance(e, c) == c \in Bases(e.cls)

\* init_worker_sh, the initializer of every pool process: the disposition it
\* sets for SIGINT.
InitWorkerShLeftOut == "SIG_DFL"
init_worker_sh == "SIG_IGN"

\* Exceptions a worker task can fail with. A worker that ignores SIGINT never
\* raises KeyboardInterrupt.
WorkerExceptions(i) ==
    {Exc("PermissionError", en, i) : en \in {"EACCES", "ENOSPC"}}
    \cup {Exc("OSError", en, i) : en \in {"ENOSPC", "EIO"}}
    \cup {Exc("MemoryError", "none", i), Exc("Exception", "none", i)}
    \cup (IF init_worker_sh = "SIG_IGN" THEN {}
          ELSE {Exc("KeyboardInterrupt", "none", i)})

\* ------------------------------------------------------------ log records
Sentinel == [task |-> 0, msg |-> "sentinel"]

Record(i, m) == [task |-> i, msg |-> m]

Range(s) == {s[k] : k \in 1..Len(s)}

\* --------------------------------------------------------------- packages
\* What run_installer itself reads of a QtPackage: archive_install_path (empty,
\* blank, or a sub-directory) and package_desc (missing or empty, a text
\* without "Size: ", a text with it).
InstallPaths == {"", " ", "subdir"}

Descs == {"none", "nosize", "size"}

Packages == [install_path : InstallPaths, desc : Descs]

DefaultPackage == [install_path |-> "subdir", desc |-> "size"]

\* ------------------------------------------------------------------ tasks
\* for arc in archives
Archives == 1..nArchives

\* The entries of the list handed to starmap.
Tasks == 1..Len(tasks)

\* The package a task installs: the first element of its argument tuple.
PackageOf(i) == tasks[i].arc

Running == {"download", "extract"}

Finished == {"done", "failed", "skipped"}

\* Pool._map_async: chunksize, extra = divmod(len(iterable), len(pool) * 4)
ChunkSize ==
    IF Len(tasks) = 0 THEN 0
    ELSE (Len(tasks) \div (poolProcs * 4))
         + (IF Len(tasks) % (poolProcs * 4) # 0 THEN 1 ELSE 0)

ChunkOf(i) == (i - 1) \div ChunkSize

Chunks == {ChunkOf(i) : i \in Tasks}

ChunkStarted(c) == \E i \in Tasks : ChunkOf(i) = c /\ task[i] # "pending"

ChunkBusy(c) ==
    /\ ChunkStarted(c)
    /\ \E i \in Tasks : ChunkOf(i) = c /\ task[i] \in Running \cup {"pending"}

\* A pending task may be taken: it continues the chunk its worker is running,
\* or it opens the next chunk of the task queue on an idle worker process.
CanStart(i) ==
    /\ task[i] = "pending"
    /\ IF \E j \in Tasks : j < i /\ ChunkOf(j) = ChunkOf(i)
       THEN task[i - 1] = "done"
       ELSE /\ \A c \in Chunks : c < ChunkOf(i) => ChunkStarted(c)
            /\ Cardinality({c \in Chunks : ChunkBusy(c)}) < poolProcs

AllChunksDone == \A i \in Tasks : task[i] \in Finished


\* -------------------------------------------------- failure classification
Err(c, e, o, cause, actions) ==
    [cls |-> c, errno |-> e, origin |-> o, cause |-> cause, suggested |-> actions]

NoErr == Err("none", "none", 0, "none", <<>>)

\* A bare `raise` of the caught exception: the same exception, untouched.
Reraise(e) == Err(e.cls, e.errno, e.origin, "none", <<>>)

\* Variant: the OSError clause written before the PermissionError clause.
ExceptClausesOSErrorFirst ==
    <<"OSError", "PermissionError", "KeyboardInterrupt", "MemoryError", "Exception">>

\* The except clauses of run_installer's try statement, in source order.
ExceptClauses ==
    <<"PermissionError", "OSError", "KeyboardInterrupt", "MemoryError", "Exception">>

\* Python runs the first clause the exception is an instance of.
Clause(e) ==
    LET hits == {k \in 1..Len(ExceptClauses) : IsInstance(e, ExceptClauses[k])}
    IN  IF hits = {} THEN "none"
        ELSE ExceptClauses[CHOOSE k \in hits : \A m \in hits : k <= m]

OnPermissionError(e) ==
    Err("DiskAccessNotPermitted", "none", 0, e.cls, <<"check_destination_writable">>)

\* Variant: the errno test left out, every OSError re-raised as it is.
OnOSErrorNeverWraps(e) == Reraise(e)

\* Variant: the errno test left out, every OSError reported as a full disk.
OnOSErrorAlwaysWraps(e) ==
    Err("OutOfDiskSpace", "none", 0, e.cls,
        <<"check_available_disk_space", "check_size_requirements">>)

OnOSError(e) ==
    IF e.errno = "ENOSPC"
    THEN Err("OutOfDiskSpace", "none", 0, e.cls,
             <<"check_available_disk_space", "check_size_requirements">>)
    ELSE Reraise(e)

\* Variant: the interrupt re-raised instead of translated.
OnKeyboardInterruptReraises(e) == Reraise(e)

OnKeyboardInterrupt(e) == Err("CliKeyboardInterrupt", "none", 0, e.cls, <<>>)

\* Variant: the concurrency test off by one (>= 1 for > 1).
OnMemoryErrorOffByOne(e) ==
    IF concurrency >= 1
    THEN Err("OutOfMemory", "none", 0, e.cls,
             <<"reduce_concurrency", "try_external_7z">>)
    ELSE Err("OutOfMemory", "none", 0, "none",
             <<"free_up_memory", "try_external_7z">>)

OnMemoryError(e) ==
    IF concurrency > 1
    THEN Err("OutOfMemory", "none", 0, e.cls,
             <<"reduce_concurrency", "try_external_7z">>)
    ELSE Err("OutOfMemory", "none", 0, "none",
             <<"free_up_memory", "try_external_7z">>)

\* Variant: the exception wrapped in the package's own base error class.
OnExceptionWraps(e) == Err("AqtException", "none", 0, e.cls, <<>>)

\* Variant: the clause ends without a raise, so the exception is swallowed.
OnExceptionSwallows(e) == NoErr

\* `raise e from e`: the same exception, its __cause__ set to itself.
OnException(e) == Err(e.cls, e.errno, e.origin, e.cls, <<>>)

\* Variant: the warning is logged but the pool is left alone.
CloseWorkerPoolOnExceptionLogsOnly ==
    /\ mainLog' = Append(mainLog, [kind |-> "caught", arg |-> 0, text |-> <<exc.cls>>])
    /\ UNCHANGED <<task, pool>>

\* close_worker_pool_on_exception: log a warning, pool.terminate(), pool.join().
\* terminate() kills the worker processes: a running task is cut off where it
\* is, a pending task is never run.
CloseWorkerPoolOnException ==
    /\ mainLog' = Append(mainLog, [kind |-> "caught", arg |-> 0, text |-> <<exc.cls>>])
    /\ task' = [i \in Tasks |-> IF task[i] \in Running THEN "killed" ELSE task[i]]
    /\ pool' = "terminated_joined"

\* ------------------------------------------------------------------- Init
\* The variables of the command line.
cli == <<c_pc, c_args, c_env, c_stack, c_calls, c_installs, c_dirs, c_exc, c_code,
         c_trace>>

\* The parsed arguments of install-qt that run_install_qt reads here.
Args(host, target, arch, autodesktop, timeout, keep_, archive_dest, dry_run_, nopatch) ==
    [host |-> host, target |-> target, arch |-> arch, autodesktop |-> autodesktop,
     timeout |-> timeout, keep |-> keep_, archive_dest |-> archive_dest,
     dry_run |-> dry_run_, nopatch |-> nopatch]

\* Cli.run is not followed.
CliIdle ==
    /\ c_pc = "idle"
    /\ c_args = Args("linux", "desktop", "gcc_64", FALSE, "None", FALSE, "None", FALSE,
                     FALSE)
    /\ c_env = [platform |-> "linux", qt6 |-> TRUE, desktop_installed |-> FALSE,
                always_keep_archives |-> FALSE]
    /\ c_stack = <<>>
    /\ c_calls = <<>>
    /\ c_installs = <<>>
    /\ c_dirs = {}
    /\ c_exc = "none"
    /\ c_code = <<>>
    /\ c_trace = <<>>

\* No external command has failed.
NoProc == [returncode |-> 0, out |-> "", err |-> ""]

\* The variables of the step-by-step view of one worker task.
single == <<w_pc, ignore_hash, max_retries, command, content, ext, hash, hashCalls,
            attempt, base, calls, archive, strategies, extracted, wlog, werr,
            proc, wmsg, steps, handlers>>

\* No task is followed step by step.
SingleIdle ==
    /\ w_pc = "idle"
    /\ ignore_hash = FALSE
    /\ max_retries = 1
    /\ command = "None"
    /\ content = "7z"
    /\ ext = "7z"
    /\ hash = "unset"
    /\ hashCalls = 0
    /\ attempt = 0
    /\ base = "primary"
    /\ calls = <<>>
    /\ archive = "absent"
    /\ strategies = <<>>
    /\ extracted = FALSE
    /\ wlog = <<>>
    /\ werr = "none"
    /\ proc = NoProc
    /\ wmsg = <<>>
    /\ steps = <<>>
    /\ handlers = <<>>

Init ==
    /\ RestIdle
    /\ CliIdle
    /\ SingleIdle
    /\ dry_run \in BOOLEAN
    /\ nArchives \in 0..MaxPackages
    /\ concurrency \in 1..MaxConcurrency
    /\ is64 \in BOOLEAN
    /\ pc = "start"
    /\ listener = "none"
    /\ queue = <<>>
    /\ emitted = <<>>
    /\ pool = "none"
    /\ poolProcs = 0
    /\ maxtasks = 0
    /\ task = <<>>
    /\ firstExc = NoExc
    /\ exc = NoExc
    /\ pending = NoErr
    /\ surfaced = <<>>
    /\ enqCalls = 0
    /\ stopCalls = 0
    /\ sentBefore = {}
    /\ enospcSeen = FALSE
    /\ inFlightAtFail = {}
    /\ mainLog = <<>>
    /\ keep \in BOOLEAN
    /\ pkgs = [i \in Archives |-> DefaultPackage]
    /\ tasks = <<>>
    /\ staged = {}
    /\ extractCount = [p \in Archives |-> 0]

inputs == <<dry_run, nArchives, concurrency, is64, keep, pkgs>>

\* The files the batch leaves on disk.
disk == <<staged, extractCount>>

history == <<sentBefore, enospcSeen, inFlightAtFail>>

\* ------------------------------------------------- the controlling process
\* Variant: the install path tested for emptiness only, not stripped.
DryRunLineNoStrip(a) ==
    <<"name: archive_path">>
    \o (IF pkgs[a].desc = "size" THEN <<"(size)">> ELSE <<>>)
    \o (IF pkgs[a].install_path # "" THEN <<"-> archive_install_path">> ELSE <<>>)

\* The parts of the line the dry run logs for one package: name and archive
\* path, the size when package_desc has one, the install path unless blank.
DryRunLine(a) ==
    <<"name: archive_path">>
    \o (IF pkgs[a].desc = "size" THEN <<"(size)">> ELSE <<>>)
    \o (IF pkgs[a].install_path = "subdir" THEN <<"-> archive_install_path">> ELSE <<>>)

\* Variant: the return at the end of the dry-run branch is missing.
DryRunFallsThrough ==
    /\ pc = "start" /\ dry_run
    /\ mainLog' = <<[kind |-> "dry_header", arg |-> 0, text |-> <<>>]>>
                  \o [i \in Archives |-> [kind |-> "pkg", arg |-> i, text |-> DryRunLine(i)]]
                  \o <<[kind |-> "total", arg |-> nArchives, text |-> <<>>]>>
    /\ queue' = <<>>
    /\ listener' = "running"
    /\ pc' = "build"
    /\ UNCHANGED <<rest, cli, single, inputs, tasks, disk, history, emitted, pool, poolProcs,
                   maxtasks, task, firstExc, exc, pending, surfaced, enqCalls,
                   stopCalls>>

\* if dry_run: log the packages and the total, return.
DryRun ==
    /\ pc = "start" /\ dry_run
    /\ mainLog' = <<[kind |-> "dry_header", arg |-> 0, text |-> <<>>]>>
                  \o [i \in Archives |-> [kind |-> "pkg", arg |-> i, text |-> DryRunLine(i)]]
                  \o <<[kind |-> "total", arg |-> nArchives, text |-> <<>>]>>
    /\ pc' = "returned"
    /\ UNCHANGED <<rest, cli, single, inputs, tasks, disk, history, listener, queue, emitted, pool,
                   poolProcs, maxtasks, task, firstExc, exc, pending, surfaced,
                   enqCalls, stopCalls>>

\* queue = Manager().Queue(-1); listener = MyQueueListener(queue); listener.start()
StartListener ==
    /\ pc = "start" /\ ~dry_run
    /\ queue' = <<>>
    /\ listener' = "running"
    /\ pc' = "build"
    /\ UNCHANGED <<rest, cli, single, inputs, tasks, disk, history, emitted, pool, poolProcs, maxtasks, task,
                   firstExc, exc, pending, surfaced, enqCalls, stopCalls, mainLog>>

\* The tuple appended for one package: (arc, base_dir, sevenzip, queue,
\* archive_dest, Settings.configfile, keep).
TaskArgs(a) ==
    [arc |-> a, base_dir |-> "base_dir", command |-> "sevenzip", queue |-> "queue",
     archive_dest |-> "archive_dest", settings_ini |-> "Settings.configfile",
     keep |-> keep]

\* Variant: the loop stops one package short.
BuildTasksSkipsLast ==
    /\ pc = "build"
    /\ tasks' = [i \in 1..(nArchives - 1) |-> TaskArgs(i)]
    /\ task' = [i \in 1..(nArchives - 1) |-> "pending"]
    /\ pc' = "mkpool"
    /\ UNCHANGED <<rest, cli, single, inputs, disk, history, listener, queue, emitted, pool, poolProcs,
                   maxtasks, firstExc, exc, pending, surfaced, enqCalls,
                   stopCalls, mainLog>>

\* tasks = []; for arc in archives: tasks.append(...)
BuildTasks ==
    /\ pc = "build"
    /\ tasks' = [i \in Archives |-> TaskArgs(i)]
    /\ task' = [i \in Archives |-> "pending"]
    /\ pc' = "mkpool"
    /\ UNCHANGED <<rest, cli, single, inputs, disk, history, listener, queue, emitted, pool, poolProcs,
                   maxtasks, firstExc, exc, pending, surfaced, enqCalls,
                   stopCalls, mainLog>>

\* Variant: the 1 of the 32-bit branch passed as the number of processes.
CreatePoolSmallOn32 ==
    /\ pc = "mkpool"
    /\ \/ is64 /\ poolProcs' = concurrency /\ maxtasks' = 4
       \/ ~is64 /\ poolProcs' = 1 /\ maxtasks' = 0
    /\ pool' = "running"
    /\ pc' = "starmap"
    /\ UNCHANGED <<rest, cli, single, inputs, tasks, disk, history, listener, queue, emitted, task,
                   firstExc, exc, pending, surfaced, enqCalls, stopCalls, mainLog>>

\* ctx.Pool(Settings.concurrency, init_worker_sh, (), 4 or 1); the try
\* statement is entered and pool.starmap(installer, tasks) submits the tasks.
CreatePool ==
    /\ pc = "mkpool"
    /\ \/ is64 /\ poolProcs' = concurrency /\ maxtasks' = 4
       \/ ~is64 /\ poolProcs' = concurrency /\ maxtasks' = 1
    /\ pool' = "running"
    /\ pc' = "starmap"
    /\ UNCHANGED <<rest, cli, single, inputs, tasks, disk, history, listener, queue, emitted, task, firstExc,
                   exc, pending, surfaced, enqCalls, stopCalls, mainLog>>

\* The pool constructor raises (it starts processes, pipes and threads): the
\* statement is outside the try, so the exception leaves run_installer at once.
CreatePoolRaises ==
    /\ pc = "mkpool"
    /\ surfaced' = Append(surfaced, Reraise(Exc("OSError", "EMFILE", 0)))
    /\ pc' = "raised"
    /\ UNCHANGED <<rest, cli, single, inputs, tasks, disk, history, listener, queue, emitted, pool, poolProcs,
                   maxtasks, task, firstExc, exc, pending, enqCalls, stopCalls,
                   mainLog>>

\* MapResult: ready only once all chunks are done.
MapResultReady == AllChunksDone

\* pool.starmap returns: every task succeeded.
StarmapReturns ==
    /\ pc = "starmap" /\ MapResultReady /\ firstExc = NoExc
    /\ pc' = "close"
    /\ UNCHANGED <<rest, cli, single, inputs, tasks, disk, history, listener, queue, emitted, pool, poolProcs,
                   maxtasks, task, firstExc, exc, pending, surfaced, enqCalls,
                   stopCalls, mainLog>>

\* pool.starmap raises the first exception a chunk failed with.
StarmapRaises ==
    /\ pc = "starmap" /\ MapResultReady /\ firstExc # NoExc
    /\ exc' = firstExc
    /\ pc' = "except"
    /\ UNCHANGED <<rest, cli, single, inputs, tasks, disk, history, listener, queue, emitted, pool, poolProcs,
                   maxtasks, task, firstExc, pending, surfaced, enqCalls,
                   stopCalls, mainLog>>

\* SIGINT reaches the controlling process somewhere inside the try block
\* (blocked in starmap, or in close or join). The workers ignore SIGINT
\* (init_worker_sh), so the interrupt is raised here only.
Interrupt ==
    /\ pc \in {"starmap", "close", "join"}
    /\ exc' = Exc("KeyboardInterrupt", "none", 0)
    /\ pc' = "except"
    /\ UNCHANGED <<rest, cli, single, inputs, tasks, disk, history, listener, queue, emitted, pool, poolProcs,
                   maxtasks, task, firstExc, pending, surfaced, enqCalls,
                   stopCalls, mainLog>>

PoolClose ==
    /\ pc = "close"
    /\ pool' = "closed"
    /\ pc' = "join"
    /\ UNCHANGED <<rest, cli, single, inputs, tasks, disk, history, listener, queue, emitted, poolProcs, maxtasks,
                   task, firstExc, exc, pending, surfaced, enqCalls, stopCalls,
                   mainLog>>

\* Variant: pool.join() left out after pool.close().
PoolJoinLeftOut ==
    /\ pc = "join"
    /\ pool' = pool
    /\ pc' = "finally"
    /\ UNCHANGED <<rest, cli, single, inputs, tasks, disk, history, listener, queue, emitted, poolProcs, maxtasks,
                   task, firstExc, exc, pending, surfaced, enqCalls, stopCalls,
                   mainLog>>

\* pool.join() returns when the worker processes have exited.
PoolJoin ==
    /\ pc = "join"
    /\ \A i \in Tasks : task[i] \notin Running
    /\ pool' = "closed_joined"
    /\ pc' = "finally"
    /\ UNCHANGED <<rest, cli, single, inputs, tasks, disk, history, listener, queue, emitted, poolProcs, maxtasks,
                   task, firstExc, exc, pending, surfaced, enqCalls, stopCalls,
                   mainLog>>

handlerFrame == <<rest, cli, single, inputs, tasks, disk, history, listener, queue, emitted, poolProcs, maxtasks,
                  firstExc, exc, surfaced, enqCalls, stopCalls>>

ExceptPermissionError ==
    /\ pc = "except" /\ Clause(exc) = "PermissionError"
    /\ CloseWorkerPoolOnException
    /\ pending' = OnPermissionError(exc)
    /\ pc' = "finally"
    /\ UNCHANGED handlerFrame

ExceptOSError ==
    /\ pc = "except" /\ Clause(exc) = "OSError"
    /\ CloseWorkerPoolOnException
    /\ pending' = OnOSError(exc)
    /\ pc' = "finally"
    /\ UNCHANGED handlerFrame

ExceptKeyboardInterrupt ==
    /\ pc = "except" /\ Clause(exc) = "KeyboardInterrupt"
    /\ CloseWorkerPoolOnException
    /\ pending' = OnKeyboardInterrupt(exc)
    /\ pc' = "finally"
    /\ UNCHANGED handlerFrame

ExceptMemoryError ==
    /\ pc = "except" /\ Clause(exc) = "MemoryError"
    /\ CloseWorkerPoolOnException
    /\ pending' = OnMemoryError(exc)
    /\ pc' = "finally"
    /\ UNCHANGED handlerFrame

ExceptException ==
    /\ pc = "except" /\ Clause(exc) = "Exception"
    /\ CloseWorkerPoolOnException
    /\ pending' = OnException(exc)
    /\ pc' = "finally"
    /\ UNCHANGED handlerFrame

\* finally: listener.enqueue_sentinel()
FinallyEnqueueSentinel ==
    /\ pc = "finally"
    /\ queue' = Append(queue, Sentinel)
    /\ enqCalls' = enqCalls + 1
    /\ pc' = "stop"
    /\ UNCHANGED <<rest, cli, single, inputs, tasks, disk, history, listener, emitted, pool, poolProcs, maxtasks,
                   task, firstExc, exc, pending, surfaced, stopCalls, mainLog>>

\* Variant: listener.stop() left out; control leaves after enqueue_sentinel().
FinallyStopLeftOut ==
    /\ pc = "stop"
    /\ IF pending = NoErr
       THEN pc' = "returned" /\ surfaced' = surfaced
       ELSE pc' = "raised" /\ surfaced' = Append(surfaced, pending)
    /\ UNCHANGED <<rest, cli, single, inputs, tasks, disk, history, listener, queue, emitted, pool, poolProcs,
                   maxtasks, task, firstExc, exc, pending, enqCalls, stopCalls,
                   mainLog>>

\* finally: listener.stop(), which enqueues a sentinel and joins the thread.
FinallyStop ==
    /\ pc = "stop"
    /\ queue' = Append(queue, Sentinel)
    /\ stopCalls' = stopCalls + 1
    /\ pc' = "stopjoin"
    /\ UNCHANGED <<rest, cli, single, inputs, tasks, disk, history, listener, emitted, pool, poolProcs, maxtasks,
                   task, firstExc, exc, pending, surfaced, enqCalls, mainLog>>

\* The join inside listener.stop() returns; the finally block is over and the
\* pending exception, if any, reaches the caller.
FinallyDone ==
    /\ pc = "stopjoin"
    /\ listener = "exited"
    /\ IF pending = NoErr
       THEN pc' = "returned" /\ surfaced' = surfaced
       ELSE pc' = "raised" /\ surfaced' = Append(surfaced, pending)
    /\ UNCHANGED <<rest, cli, single, inputs, tasks, disk, history, listener, queue, emitted, pool, poolProcs,
                   maxtasks, task, firstExc, exc, pending, enqCalls, stopCalls,
                   mainLog>>

\* ------------------------------------------------------- the worker tasks
WorkersAlive == pool \in {"running", "closed"}

\* Variant: the record jumps the queue.
EnqueueAtFront(r) ==
    /\ queue' = <<r>> \o queue
    /\ sentBefore' = IF enqCalls = 0 /\ stopCalls = 0
                     THEN sentBefore \cup {r} ELSE sentBefore

\* QueueHandler.emit: put the record on the shared queue.
Enqueue(r) ==
    /\ queue' = Append(queue, r)
    /\ sentBefore' = IF enqCalls = 0 /\ stopCalls = 0
                     THEN sentBefore \cup {r} ELSE sentBefore

workerFrame == <<rest, cli, single, inputs, tasks, pc, listener, emitted, pool, poolProcs, maxtasks, exc,
                 pending, surfaced, enqCalls, stopCalls, mainLog>>

\* A worker process takes the task: load the settings, route the root logger
\* to the queue, resolve the expected hash.
TaskStart(i) ==
    /\ WorkersAlive /\ CanStart(i)
    /\ task' = [task EXCEPT ![i] = "download"]
    /\ UNCHANGED <<workerFrame, disk, history, queue, firstExc>>

\* download_bin under the two retry wrappers; it logs the download URL and
\* leaves the archive file in archive_dest.
TaskDownload(i) ==
    /\ WorkersAlive /\ task[i] = "download"
    /\ Enqueue(Record(i, "url"))
    /\ task' = [task EXCEPT ![i] = "extract"]
    /\ staged' = staged \cup {PackageOf(i)}
    /\ UNCHANGED <<workerFrame, extractCount, enospcSeen, inFlightAtFail, firstExc>>

\* Variant: the archive is never unlinked.
TaskFinishKeepsArchive(i) ==
    /\ WorkersAlive /\ task[i] = "extract"
    /\ Enqueue(Record(i, "finished"))
    /\ task' = [task EXCEPT ![i] = "done"]
    /\ extractCount' = [extractCount EXCEPT ![PackageOf(i)] = @ + 1]
    /\ UNCHANGED <<workerFrame, staged, enospcSeen, inFlightAtFail, firstExc>>

\* Extract by the archive's content, unlink the archive unless keep, log
\* "Finished installation of ...", flush and remove the queue handler.
TaskFinish(i) ==
    /\ WorkersAlive /\ task[i] = "extract"
    /\ Enqueue(Record(i, "finished"))
    /\ task' = [task EXCEPT ![i] = "done"]
    /\ extractCount' = [extractCount EXCEPT ![PackageOf(i)] = @ + 1]
    /\ staged' = IF tasks[i].keep THEN staged ELSE staged \ {PackageOf(i)}
    /\ UNCHANGED <<workerFrame, enospcSeen, inFlightAtFail, firstExc>>

\* A step of the task raises. The exception ends the task's chunk (the rest of
\* the chunk is never run) and goes back to the MapResult, which keeps the
\* first one only.
TaskFails(i) ==
    /\ WorkersAlive /\ task[i] \in Running
    /\ \E e \in WorkerExceptions(i) :
        /\ firstExc' = IF firstExc = NoExc THEN e ELSE firstExc
        /\ enospcSeen' = (enospcSeen \/ (e.cls = "OSError" /\ e.errno = "ENOSPC"))
    /\ task' = [j \in Tasks |->
                  IF j = i THEN "failed"
                  ELSE IF j > i /\ ChunkOf(j) = ChunkOf(i) THEN "skipped"
                  ELSE task[j]]
    /\ inFlightAtFail' = IF firstExc = NoExc
                         THEN {j \in Tasks \ {i} : task[j] \in Running}
                         ELSE inFlightAtFail
    /\ UNCHANGED <<workerFrame, disk, queue, sentBefore>>

\* ------------------------------------------------------ the listener thread
listenerFrame == <<rest, cli, single, inputs, tasks, disk, history, pc, pool, poolProcs, maxtasks, task, firstExc,
                   exc, pending, surfaced, enqCalls, stopCalls, mainLog>>

\* _monitor: dequeue a record and handle it (re-emit through the logger).
ListenerHandle ==
    /\ listener = "running"
    /\ queue # <<>> /\ Head(queue) # Sentinel
    /\ emitted' = Append(emitted, Head(queue))
    /\ queue' = Tail(queue)
    /\ UNCHANGED <<listenerFrame, listener>>

\* _monitor: the dequeued record is the sentinel; the thread ends.
ListenerSentinel ==
    /\ listener = "running"
    /\ queue # <<>> /\ Head(queue) = Sentinel
    /\ queue' = Tail(queue)
    /\ listener' = "exited"
    /\ UNCHANGED <<listenerFrame, emitted>>

\* ------------------------------------------------------------------- Next
Next ==
    \/ DryRun
    \/ StartListener
    \/ BuildTasks
    \/ CreatePool
    \/ CreatePoolRaises
    \/ StarmapReturns
    \/ StarmapRaises
    \/ Interrupt
    \/ PoolClose
    \/ PoolJoin
    \/ ExceptPermissionError
    \/ ExceptOSError
    \/ ExceptKeyboardInterrupt
    \/ ExceptMemoryError
    \/ ExceptException
    \/ FinallyEnqueueSentinel
    \/ FinallyStop
    \/ FinallyDone
    \/ \E i \in Tasks : TaskStart(i)
    \/ \E i \in Tasks : TaskDownload(i)
    \/ \E i \in Tasks : TaskFinish(i)
    \/ \E i \in Tasks : TaskFails(i)
    \/ ListenerHandle
    \/ ListenerSentinel

Spec == Init /\ [][Next]_vars

\* The controlling process runs its statements one after the other: each
\* step of run_installer is taken once it can be.
ControlFairness ==
    /\ WF_vars(DryRun)
    /\ WF_vars(StartListener)
    /\ WF_vars(BuildTasks)
    /\ WF_vars(CreatePool)
    /\ WF_vars(StarmapReturns)
    /\ WF_vars(StarmapRaises)
    /\ WF_vars(PoolClose)
    /\ WF_vars(PoolJoin)
    /\ WF_vars(ExceptPermissionError)
    /\ WF_vars(ExceptOSError)
    /\ WF_vars(ExceptKeyboardInterrupt)
    /\ WF_vars(ExceptMemoryError)
    /\ WF_vars(ExceptException)
    /\ WF_vars(FinallyEnqueueSentinel)
    /\ WF_vars(FinallyStop)
    /\ WF_vars(FinallyDone)

\* The listener thread handles what is on the queue.
ListenerFairness == WF_vars(ListenerHandle) /\ WF_vars(ListenerSentinel)

\* An idle worker process of the pool takes the next task.
PoolFairness == \A i \in 1..MaxPackages : WF_vars(i \in Tasks /\ TaskStart(i))

\* A task that has begun comes to an end by itself.
TasksTerminate ==
    \A i \in 1..MaxPackages :
        /\ WF_vars(i \in Tasks /\ TaskDownload(i))
        /\ WF_vars(i \in Tasks /\ TaskFinish(i))

\* run_installer with the scheduling the claim grants: the controlling
\* process, the listener and the pool take their steps; a task may stay in a
\* step for ever (pool.terminate() can still kill it).
SpecLive == Spec /\ ControlFairness /\ ListenerFairness /\ PoolFairness

\* The same, with every task coming to an end.
SpecLiveTasks == SpecLive /\ TasksTerminate

\* ---------------------------------------------- the dry run on any packages
InitDryRun ==
    /\ RestIdle
    /\ CliIdle
    /\ SingleIdle
    /\ dry_run = TRUE
    /\ nArchives \in 0..MaxPackages
    /\ concurrency \in 1..MaxConcurrency
    /\ is64 \in BOOLEAN
    /\ keep \in BOOLEAN
    /\ pkgs \in [Archives -> Packages]
    /\ pc = "start"
    /\ listener = "none"
    /\ queue = <<>>
    /\ emitted = <<>>
    /\ pool = "none"
    /\ poolProcs = 0
    /\ maxtasks = 0
    /\ task = <<>>
    /\ firstExc = NoExc
    /\ exc = NoExc
    /\ pending = NoErr
    /\ surfaced = <<>>
    /\ enqCalls = 0
    /\ stopCalls = 0
    /\ sentBefore = {}
    /\ enospcSeen = FALSE
    /\ inFlightAtFail = {}
    /\ mainLog = <<>>
    /\ tasks = <<>>
    /\ staged = {}
    /\ extractCount = [p \in Archives |-> 0]

NextDryRun == DryRun

SpecDryRun == InitDryRun /\ [][NextDryRun]_vars

\* ------------------------------------------- one worker task, step by step
\* The variables of the batch, which one task on its own leaves alone.
batch == <<inputs, tasks, disk, history, pc, listener, queue, emitted, pool,
           poolProcs, maxtasks, task, firstExc, exc, pending, surfaced,
           enqCalls, stopCalls, mainLog>>

Commands == {"None", "7z"}
Contents == {"tar", "zip", "tar+zip", "7z", "other"}
Extensions == {"7z", "zip"}

\* tarfile.is_tarfile(archive) and zipfile.is_zipfile(archive) look at the
\* bytes of the file.
IsTarfile == content \in {"tar", "tar+zip"}
IsZipfile == content \in {"zip", "tar+zip"}

\* acceptable_errors and num_retries handed to retry_on_errors.
AcceptableErrorsWithOSError == {"ArchiveChecksumError", "OSError"}
AcceptableErrors == {"ArchiveChecksumError"}
NumRetries == max_retries

StrategyZipFirst ==
    IF IsZipfile THEN "zip"
    ELSE IF IsTarfile THEN "tar"
    ELSE IF command = "None" THEN "py7zr"
    ELSE "external"

\* The branch of the if/elif chain that extracts the archive.
Strategy ==
    IF IsTarfile THEN "tar"
    ELSE IF IsZipfile THEN "zip"
    ELSE IF command = "None" THEN "py7zr"
    ELSE "external"

\* An exception leaves installer.
WorkerRaises(cls) ==
    /\ w_pc' = "failed"
    /\ werr' = cls

MaxHandlers == 3

\* The handlers the root logger has when the task begins: what setup_logging
\* installed and what an earlier task of the same process left behind.
RootHandlers(n) == [k \in 1..n |-> <<"handler", k>>]

\* The list without its i-th item.
RemoveAt(hs, i) == [k \in 1..(Len(hs) - 1) |-> IF k < i THEN hs[k] ELSE hs[k + 1]]

\* for handler in logger.handlers: handler.close(); logger.removeHandler(handler)
\* The loop walks the very list removeHandler shrinks: the i-th item is
\* removed, then the loop goes on to index i + 1 of the shortened list.
RECURSIVE RemoveHandlers(_, _)
RemoveHandlers(hs, i) ==
    IF i > Len(hs) THEN hs ELSE RemoveHandlers(RemoveAt(hs, i), i + 1)

\* qh = QueueHandler(queue)
Qh == <<"QueueHandler", 0>>

\* logger.removeHandler(qh)
NotQh(h) == h # Qh

\* name .. logger.addHandler(qh), timeout
I_Setup ==
    /\ w_pc = "start"
    /\ steps' = Append(steps, "setup")
    /\ handlers' = Append(RemoveHandlers(handlers, 1), Qh)
    /\ w_pc' = "hash"
    /\ UNCHANGED <<rest, cli, batch, proc, wmsg, ignore_hash, max_retries, command, content, ext, hash,
                   hashCalls, attempt, base, calls, archive, strategies,
                   extracted, wlog, werr>>

I_GetHashAlways ==
    /\ w_pc = "hash"
    /\ steps' = Append(steps, "hash")
    /\ hash' = "H" /\ hashCalls' = hashCalls + 1
    /\ w_pc' = "download"
    /\ attempt' = 0
    /\ base' = "primary"
    /\ UNCHANGED <<rest, cli, batch, handlers, proc, wmsg, ignore_hash, max_retries, command, content, ext,
                   calls, archive, strategies, extracted, wlog, werr>>

\* hash = get_hash(...) if not Settings.ignore_hash else None
I_GetHash ==
    /\ w_pc = "hash"
    /\ steps' = Append(steps, "hash")
    /\ IF ignore_hash
         THEN hash' = "None" /\ UNCHANGED hashCalls
         ELSE hash' = "H" /\ hashCalls' = hashCalls + 1
    /\ w_pc' = "download"
    /\ attempt' = 0
    /\ base' = "primary"
    /\ UNCHANGED <<rest, cli, batch, handlers, proc, wmsg, ignore_hash, max_retries, command, content, ext,
                   calls, archive, strategies, extracted, wlog, werr>>

\* get_hash raises: the trusted hash could not be fetched.
I_GetHashFails ==
    /\ w_pc = "hash"
    /\ steps' = Append(steps, "hash")
    /\ ~ignore_hash
    /\ hashCalls' = hashCalls + 1
    /\ WorkerRaises("ChecksumDownloadFailure")
    /\ UNCHANGED <<rest, cli, batch, handlers, proc, wmsg, ignore_hash, max_retries, command, content, ext, hash,
                   attempt, base, calls, archive, strategies, extracted, wlog>>

\* download_bin(_base_url): log the URL, call downloadBinaryFile with `hash`.
DownloadBin(outcome) ==
    /\ calls' = Append(calls, [base |-> base, hash |-> hash, outcome |-> outcome])
    /\ wlog' = Append(wlog, <<"Download URL", base>>)

\* retry_on_errors sees `cls` leave its action: another round while the class
\* is acceptable and rounds are left, otherwise the exception goes on.  Each
\* round calls retry_on_bad_connection(download_bin, base_url) afresh.
RetryOnErrors(cls) ==
    IF cls \in AcceptableErrors /\ attempt < NumRetries - 1
      THEN /\ attempt' = attempt + 1
           /\ base' = "primary"
           /\ UNCHANGED <<w_pc, werr>>
      ELSE /\ WorkerRaises(cls)
           /\ UNCHANGED <<attempt, base>>

I_DownloadOk ==
    /\ w_pc = "download"
    /\ steps' = Append(steps, "download")
    /\ DownloadBin("ok")
    /\ archive' = "present"
    /\ w_pc' = "extract"
    /\ UNCHANGED <<rest, cli, batch, handlers, proc, wmsg, ignore_hash, max_retries, command, content, ext, hash,
                   hashCalls, attempt, base, strategies, extracted, werr>>

\* downloadBinaryFile compares only against an expected hash it was given.
I_DownloadChecksumError ==
    /\ w_pc = "download"
    /\ steps' = Append(steps, "download")
    /\ hash = "H"
    /\ DownloadBin("checksum")
    /\ archive' = "partial"
    /\ RetryOnErrors("ArchiveChecksumError")
    /\ UNCHANGED <<rest, cli, batch, handlers, proc, wmsg, ignore_hash, max_retries, command, content, ext, hash,
                   hashCalls, strategies, extracted>>

\* retry_on_bad_connection: a connection failure on the base URL is answered
\* by one call with the fallback URL; a failure there goes on.
I_DownloadConnectionError ==
    /\ w_pc = "download"
    /\ steps' = Append(steps, "download")
    /\ DownloadBin("connection")
    /\ archive' = "partial"
    /\ IF base = "primary"
         THEN base' = "fallback" /\ UNCHANGED <<w_pc, werr, attempt>>
         ELSE RetryOnErrors("ArchiveDownloadError")
    /\ UNCHANGED <<rest, cli, batch, handlers, proc, wmsg, ignore_hash, max_retries, command, content, ext, hash,
                   hashCalls, strategies, extracted>>

I_DownloadOSError ==
    /\ w_pc = "download"
    /\ steps' = Append(steps, "download")
    /\ DownloadBin("oserror")
    /\ archive' = "partial"
    /\ RetryOnErrors("OSError")
    /\ UNCHANGED <<rest, cli, batch, handlers, proc, wmsg, ignore_hash, max_retries, command, content, ext, hash,
                   hashCalls, strategies, extracted>>

\* Variant: py7zr extracts whatever it is given.
I_ExtractAnything ==
    /\ w_pc = "extract"
    /\ steps' = Append(steps, "extract")
    /\ strategies' = Append(strategies, Strategy)
    /\ extracted' = TRUE
    /\ w_pc' = "unlink"
    /\ UNCHANGED <<rest, cli, batch, handlers, proc, wmsg, ignore_hash, max_retries, command, content, ext, hash,
                   hashCalls, attempt, base, calls, archive, wlog, werr>>

\* The if/elif chain extracts the archive under base_dir; py7zr opens 7z
\* archives only.
I_Extract ==
    /\ w_pc = "extract"
    /\ steps' = Append(steps, "extract")
    /\ Strategy = "py7zr" => content = "7z"
    /\ strategies' = Append(strategies, Strategy)
    /\ extracted' = TRUE
    /\ w_pc' = "unlink"
    /\ UNCHANGED <<rest, cli, batch, handlers, proc, wmsg, ignore_hash, max_retries, command, content, ext, hash,
                   hashCalls, attempt, base, calls, archive, wlog, werr>>

\* The chosen branch raises something other than CalledProcessError: a
\* library error of tarfile, zipfile or py7zr (Bad7zFile for a file that is no
\* 7z archive), or an OSError when the command cannot be run.
ExtractionErrors ==
    CASE Strategy = "py7zr" /\ content = "other" -> {"Bad7zFile"}
      [] Strategy = "external" -> {"OSError"}
      [] OTHER -> {"Exception", "OSError"}

I_ExtractFails ==
    /\ w_pc = "extract"
    /\ steps' = Append(steps, "extract")
    /\ strategies' = Append(strategies, Strategy)
    /\ \E cls \in ExtractionErrors : WorkerRaises(cls)
    /\ UNCHANGED <<rest, cli, batch, handlers, proc, wmsg, ignore_hash, max_retries, command, content, ext, hash,
                   hashCalls, attempt, base, calls, archive, extracted, wlog>>

\* Values as Python sees them in the except clause.
Str(v) == [type |-> "str", val |-> v]
Bytes(v) == [type |-> "bytes", val |-> v]
None == [type |-> "NoneType", val |-> ""]

ExitCodes == {1, 2}
StdoutTexts == {"", "stdout text"}
StderrTexts == {"", "stderr text"}

\* subprocess.run(command_args, stdout=subprocess.PIPE, check=True): stdout is
\* captured as bytes, stderr is not captured.
CpeStdout(out) == Bytes(out)
CpeStderr(err) == None

\* filter(None, ...): None and empty values are dropped.
Truthy(x) == x.type # "NoneType" /\ x.val # ""

MsgParts(rc, out, err) ==
    SelectSeq(<<Str(<<"Extraction error", rc>>), CpeStdout(out), CpeStderr(err)>>,
              Truthy)

\* "\n".join(...) raises TypeError on an item that is not a str.
JoinRaises(parts) == \E k \in 1..Len(parts) : parts[k].type # "str"

\* The external command exits with a non-zero status: CalledProcessError is
\* caught, the message is built, ArchiveExtractionError is raised from it.
I_ExternalFails ==
    /\ w_pc = "extract"
    /\ steps' = Append(steps, "extract")
    /\ Strategy = "external"
    /\ strategies' = Append(strategies, Strategy)
    /\ \E rc \in ExitCodes, out \in StdoutTexts, err \in StderrTexts :
        /\ proc' = [returncode |-> rc, out |-> out, err |-> err]
        /\ IF JoinRaises(MsgParts(rc, out, err))
             THEN WorkerRaises("TypeError") /\ wmsg' = <<>>
             ELSE /\ WorkerRaises("ArchiveExtractionError")
                  /\ wmsg' = [k \in 1..Len(MsgParts(rc, out, err)) |->
                                MsgParts(rc, out, err)[k].val]
    /\ UNCHANGED <<rest, cli, batch, handlers, ignore_hash, max_retries, command, content, ext, hash,
                   hashCalls, attempt, base, calls, archive, extracted, wlog>>

\* Variant: the archive is unlinked whatever keep says.
I_UnlinkAlways ==
    /\ w_pc = "unlink"
    /\ steps' = Append(steps, "unlink")
    /\ archive' = "deleted"
    /\ w_pc' = "log"
    /\ UNCHANGED <<rest, cli, batch, handlers, proc, wmsg, ignore_hash, max_retries, command, content, ext, hash,
                   hashCalls, attempt, base, calls, strategies, extracted, wlog,
                   werr>>

\* if not keep: os.unlink(archive)
I_Unlink ==
    /\ w_pc = "unlink"
    /\ steps' = Append(steps, "unlink")
    /\ archive' = IF keep THEN archive ELSE "deleted"
    /\ w_pc' = "log"
    /\ UNCHANGED <<rest, cli, batch, handlers, proc, wmsg, ignore_hash, max_retries, command, content, ext, hash,
                   hashCalls, attempt, base, calls, strategies, extracted, wlog,
                   werr>>

\* logger.info("Finished installation of ...") .. logger.removeHandler(qh)
I_LogFinished ==
    /\ w_pc = "log"
    /\ steps' = Append(steps, "log")
    /\ wlog' = Append(wlog, <<"Finished installation">>)
    /\ handlers' = SelectSeq(handlers, NotQh)
    /\ w_pc' = "done"
    /\ UNCHANGED <<rest, cli, batch, proc, wmsg, ignore_hash, max_retries, command, content, ext, hash,
                   hashCalls, attempt, base, calls, archive, strategies,
                   extracted, werr>>

InitInstaller ==
    /\ RestIdle
    /\ CliIdle
    /\ dry_run = FALSE
    /\ nArchives = 0
    /\ concurrency = 1
    /\ is64 = TRUE
    /\ keep \in BOOLEAN
    /\ pkgs = <<>>
    /\ pc = "start"
    /\ listener = "none"
    /\ queue = <<>>
    /\ emitted = <<>>
    /\ pool = "none"
    /\ poolProcs = 0
    /\ maxtasks = 0
    /\ task = <<>>
    /\ firstExc = NoExc
    /\ exc = NoExc
    /\ pending = NoErr
    /\ surfaced = <<>>
    /\ enqCalls = 0
    /\ stopCalls = 0
    /\ sentBefore = {}
    /\ enospcSeen = FALSE
    /\ inFlightAtFail = {}
    /\ mainLog = <<>>
    /\ tasks = <<>>
    /\ staged = {}
    /\ extractCount = <<>>
    /\ w_pc = "start"
    /\ ignore_hash \in BOOLEAN
    /\ max_retries \in 1..MaxRetries
    /\ command \in Commands
    /\ content \in Contents
    /\ ext \in Extensions
    /\ hash = "unset"
    /\ hashCalls = 0
    /\ attempt = 0
    /\ base = "primary"
    /\ calls = <<>>
    /\ archive = "absent"
    /\ strategies = <<>>
    /\ extracted = FALSE
    /\ wlog = <<>>
    /\ werr = "none"
    /\ proc = NoProc
    /\ wmsg = <<>>
    /\ steps = <<>>
    /\ \E n \in 0..MaxHandlers : handlers = RootHandlers(n)

NextInstaller ==
    \/ I_Setup
    \/ I_GetHash
    \/ I_GetHashFails
    \/ I_DownloadOk
    \/ I_DownloadChecksumError
    \/ I_DownloadConnectionError
    \/ I_DownloadOSError
    \/ I_Extract
    \/ I_ExtractFails
    \/ I_ExternalFails
    \/ I_Unlink
    \/ I_LogFinished

SpecInstaller == InitInstaller /\ [][NextInstaller]_vars

\* ------------------------------------------------------- the command line
MaxDepth == 3

UNHANDLED_EXCEPTION_CODE == 254

Hosts == {"linux", "windows", "all_os"}
Platforms == {"linux", "darwin", "win32"}
Targets == {"desktop", "android", "wasm"}
ArchNames == {"gcc_64", "android_arm64_v8a", "wasm_singlethread",
              "win64_msvc2019_arm64"}
DefaultDesktopArchs == {"gcc_64", "win64_msvc2019_64"}

\* Cli._get_effective_os_name
GetEffectiveOsName(host) ==
    IF host # "all_os" THEN host
    ELSE IF c_env.platform = "linux" THEN "linux"
    ELSE IF c_env.platform = "darwin" THEN "mac"
    ELSE "windows"

\* arch.startswith("wasm"), "msvc" in arch, arch.endswith(("arm64",
\* "arm64_cross_compiled")) on the architecture names used here.
IsWasm(arch) == arch \in {"wasm_singlethread"}
IsMsvc(arch) == arch \in {"win64_msvc2019_arm64", "win64_msvc2019_64"}
EndsWithArm64(arch) == arch \in {"win64_msvc2019_arm64"}

IsWinDesktopMsvcArm64(host, target, arch) ==
    host = "windows" /\ target = "desktop" /\ IsMsvc(arch) /\ EndsWithArm64(arch)

\* Cli._get_autodesktop_dir_and_arch: the pairs (expected desktop directory,
\* desktop arch to install) it can return; which one depends on what is
\* installed and on what the metadata says the default desktop arch is.
GetAutodesktopDirAndArch(should_autoinstall, host, target, arch) ==
    IF ~c_env.qt6
       \/ (target \notin {"ios", "android", "wasm"} /\ ~IsWasm(arch)
             /\ ~IsWinDesktopMsvcArm64(host, target, arch))
      THEN {[dir |-> "None", arch |-> "None"]}
    ELSE IF c_env.desktop_installed
      THEN {[dir |-> "installed", arch |-> "None"]}
    ELSE {[dir |-> "None", arch |-> "None"]}
         \cup {[dir |-> "expected",
                arch |-> IF should_autoinstall THEN d ELSE "None"] :
                  d \in DefaultDesktopArchs}

\* Cli.choose_archive_dest: the directory returned and whether it was created.
\* `not archive_dest` holds for None.
ChooseArchiveDest(archive_dest, keep_, temp_dir) ==
    IF archive_dest = "None"
      THEN [path |-> IF keep_ THEN "Settings.archive_download_location" ELSE temp_dir,
            mkdir |-> FALSE]
      ELSE [path |-> archive_dest, mkdir |-> TRUE]

\* The timeout run_install_qt hands to the metadata fetch (QtArchives).
Timeout(args) ==
    IF args.timeout # "None"
      THEN <<args.timeout, args.timeout>>
      ELSE <<"Settings.connection_timeout", "Settings.response_timeout">>

\* The timeout installer uses for get_hash and downloadBinaryFile, read from
\* the settings it loaded from settings_ini.
InstallerTimeout == <<"Settings.connection_timeout", "Settings.response_timeout">>

\* What run_installer and the checks of run_install_qt can raise.
AqtExceptions ==
    {"CliInputError", "DiskAccessNotPermitted", "OutOfDiskSpace", "OutOfMemory",
     "CliKeyboardInterrupt", "ArchiveExtractionError"}
OtherExceptions == {"OSError", "Exception"}
InstallerErrors == (AqtExceptions \ {"CliInputError"}) \cup OtherExceptions

\* isinstance(e, AqtException)
IsAqtException(cls) == cls \in AqtExceptions

\* The innermost frame of run_install_qt.
Frame == c_stack[Len(c_stack)]

\* Cli.run: parse_args, _setup_settings, then args.func(args).
Run ==
    /\ c_pc = "run"
    /\ c_pc' = "enter"
    /\ UNCHANGED <<rest, batch, single, c_trace, c_args, c_env, c_stack, c_calls, c_installs,
                   c_dirs, c_exc, c_code>>

\* run_install_qt from its entry to the metadata fetch: the locals are taken
\* from args, _get_autodesktop_dir_and_arch is asked once.
RunInstallQtEnter ==
    /\ c_pc = "enter"
    /\ Len(c_stack) < MaxDepth
    /\ c_calls' = Append(c_calls, c_args)
    /\ \E r \in GetAutodesktopDirAndArch(c_args.autodesktop, c_args.host,
                                        c_args.target, c_args.arch) :
         c_stack' = Append(c_stack,
            [should_autoinstall |-> c_args.autodesktop,
             autodesk_arch |-> r.arch,
             effective_os_name |-> GetEffectiveOsName(c_args.host),
             keep |-> (c_args.keep \/ c_env.always_keep_archives),
             archive_dest |-> c_args.archive_dest,
             dry_run |-> c_args.dry_run,
             nopatch |-> c_args.nopatch,
             timeout |-> Timeout(c_args),
             temp_dir |-> <<"temp_dir", Len(c_stack) + 1>>])
    /\ c_pc' = "install"
    /\ UNCHANGED <<rest, batch, single, c_trace, c_args, c_env, c_installs, c_dirs, c_exc, c_code>>

\* One of the checks of run_install_qt raises CliInputError.
RunInstallQtInputError ==
    /\ c_pc = "enter"
    /\ Len(c_stack) < MaxDepth
    /\ c_calls' = Append(c_calls, c_args)
    /\ c_exc' = "CliInputError"
    /\ c_pc' = "except"
    /\ UNCHANGED <<rest, batch, single, c_trace, c_args, c_env, c_stack, c_installs, c_dirs, c_code>>

\* Variant: `if dry_run: return` left out.
RunInstallQtInstallGoesOn ==
    /\ c_pc = "install"
    /\ LET d == ChooseArchiveDest(Frame.archive_dest, Frame.keep, Frame.temp_dir)
       IN  /\ c_dirs' = IF d.mkdir THEN c_dirs \cup {d.path} ELSE c_dirs
           /\ c_installs' = Append(c_installs,
                [archive_dest |-> d.path,
                 keep |-> Frame.keep,
                 dry_run |-> Frame.dry_run,
                 metadata_timeout |-> Frame.timeout,
                 installer_timeout |-> InstallerTimeout,
                 staged |-> ~Frame.dry_run,
                 deleted |-> (~Frame.dry_run /\ ~Frame.keep)])
    /\ c_pc' = "chain"
    /\ c_trace' = IF ~Frame.nopatch
                   THEN Append(c_trace, <<"Updater.update", Len(c_stack)>>)
                   ELSE c_trace
    /\ UNCHANGED <<rest, batch, single, c_args, c_env, c_stack, c_calls, c_exc, c_code>>

\* with TemporaryDirectory(): choose_archive_dest, then run_installer, which
\* stages every archive in the chosen directory and whose tasks unlink it
\* again unless keep.  A dry run returns here; otherwise Updater.update
\* patches the installation unless nopatch.
RunInstallQtInstall ==
    /\ c_pc = "install"
    /\ LET d == ChooseArchiveDest(Frame.archive_dest, Frame.keep, Frame.temp_dir)
       IN  /\ c_dirs' = IF d.mkdir THEN c_dirs \cup {d.path} ELSE c_dirs
           /\ c_installs' = Append(c_installs,
                [archive_dest |-> d.path,
                 keep |-> Frame.keep,
                 dry_run |-> Frame.dry_run,
                 metadata_timeout |-> Frame.timeout,
                 installer_timeout |-> InstallerTimeout,
                 staged |-> ~Frame.dry_run,
                 deleted |-> (~Frame.dry_run /\ ~Frame.keep)])
    /\ c_pc' = IF Frame.dry_run THEN "return" ELSE "chain"
    /\ c_trace' = IF ~Frame.dry_run /\ ~Frame.nopatch
                   THEN Append(c_trace, <<"Updater.update", Len(c_stack)>>)
                   ELSE c_trace
    /\ UNCHANGED <<rest, batch, single, c_args, c_env, c_stack, c_calls, c_exc, c_code>>

\* run_installer raises.
RunInstallerRaises ==
    /\ c_pc = "install"
    /\ ~Frame.dry_run
    /\ LET d == ChooseArchiveDest(Frame.archive_dest, Frame.keep, Frame.temp_dir)
       IN  c_dirs' = IF d.mkdir THEN c_dirs \cup {d.path} ELSE c_dirs
    /\ \E e \in InstallerErrors : c_exc' = e
    /\ c_pc' = "except"
    /\ UNCHANGED <<rest, batch, single, c_trace, c_args, c_env, c_stack, c_calls, c_installs, c_code>>

\* Variant: the chained call leaves args.autodesktop as it was.
RunInstallQtChainKeepsAutodesktop ==
    /\ c_pc = "chain"
    /\ Frame.should_autoinstall /\ Frame.autodesk_arch # "None"
    /\ c_args' = [c_args EXCEPT !.host = Frame.effective_os_name,
                                !.target = "desktop",
                                !.arch = Frame.autodesk_arch]
    /\ c_trace' = Append(c_trace, <<"Autodesktop will now install", Len(c_stack)>>)
    /\ c_pc' = "enter"
    /\ UNCHANGED <<rest, batch, single, c_env, c_stack, c_calls, c_installs, c_dirs,
                   c_exc, c_code>>

\* if should_autoinstall and autodesk_arch is not None: args is rewritten and
\* run_install_qt calls itself.
RunInstallQtChain ==
    /\ c_pc = "chain"
    /\ Frame.should_autoinstall /\ Frame.autodesk_arch # "None"
    /\ c_args' = [c_args EXCEPT !.autodesktop = FALSE,
                                !.host = Frame.effective_os_name,
                                !.target = "desktop",
                                !.arch = Frame.autodesk_arch]
    /\ c_trace' = Append(c_trace, <<"Autodesktop will now install", Len(c_stack)>>)
    /\ c_pc' = "enter"
    /\ UNCHANGED <<rest, batch, single, c_env, c_stack, c_calls, c_installs, c_dirs,
                   c_exc, c_code>>

\* else: "Finished installation" is logged; the function ends.
RunInstallQtFinished ==
    /\ c_pc = "chain"
    /\ ~(Frame.should_autoinstall /\ Frame.autodesk_arch # "None")
    /\ c_trace' = Append(c_trace, <<"Finished installation", Len(c_stack)>>)
    /\ c_pc' = "return"
    /\ UNCHANGED <<rest, batch, single, c_args, c_env, c_stack, c_calls, c_installs,
                   c_dirs, c_exc, c_code>>

\* run_install_qt returns to its caller; the chained call is the caller's last
\* statement.
RunInstallQtReturn ==
    /\ c_pc = "return"
    /\ c_stack # <<>>
    /\ c_stack' = SubSeq(c_stack, 1, Len(c_stack) - 1)
    /\ UNCHANGED <<rest, batch, single, c_trace, c_pc, c_args, c_env, c_calls, c_installs, c_dirs,
                   c_exc, c_code>>

\* args.func(args) returned: return 0
RunReturns ==
    /\ c_pc = "return"
    /\ c_stack = <<>>
    /\ c_code' = <<0>>
    /\ c_pc' = "done"
    /\ UNCHANGED <<rest, batch, single, c_trace, c_args, c_env, c_stack, c_calls, c_installs,
                   c_dirs, c_exc>>

\* Variant: the error is logged and 0 returned.
RunExceptAqtExceptionReturnsZero ==
    /\ c_pc = "except"
    /\ IsAqtException(c_exc)
    /\ c_stack' = <<>>
    /\ c_code' = <<0>>
    /\ c_pc' = "done"
    /\ UNCHANGED <<rest, batch, single, c_trace, c_args, c_env, c_calls, c_installs, c_dirs, c_exc>>

\* except AqtException: log the error, return 1
RunExceptAqtException ==
    /\ c_pc = "except"
    /\ IsAqtException(c_exc)
    /\ c_stack' = <<>>
    /\ c_code' = <<1>>
    /\ c_pc' = "done"
    /\ UNCHANGED <<rest, batch, single, c_trace, c_args, c_env, c_calls, c_installs, c_dirs, c_exc>>

\* except Exception: log the bug report, return Cli.UNHANDLED_EXCEPTION_CODE
RunExceptException ==
    /\ c_pc = "except"
    /\ ~IsAqtException(c_exc)
    /\ c_stack' = <<>>
    /\ c_code' = <<UNHANDLED_EXCEPTION_CODE>>
    /\ c_pc' = "done"
    /\ UNCHANGED <<rest, batch, single, c_trace, c_args, c_env, c_calls, c_installs, c_dirs, c_exc>>

InitCli ==
    /\ RestIdle
    /\ SingleIdle
    /\ dry_run = FALSE
    /\ nArchives = 0
    /\ concurrency = 1
    /\ is64 = TRUE
    /\ keep = FALSE
    /\ pkgs = <<>>
    /\ pc = "start"
    /\ listener = "none"
    /\ queue = <<>>
    /\ emitted = <<>>
    /\ pool = "none"
    /\ poolProcs = 0
    /\ maxtasks = 0
    /\ task = <<>>
    /\ firstExc = NoExc
    /\ exc = NoExc
    /\ pending = NoErr
    /\ surfaced = <<>>
    /\ enqCalls = 0
    /\ stopCalls = 0
    /\ sentBefore = {}
    /\ enospcSeen = FALSE
    /\ inFlightAtFail = {}
    /\ mainLog = <<>>
    /\ tasks = <<>>
    /\ staged = {}
    /\ extractCount = <<>>
    /\ c_pc = "run"
    /\ \E host \in Hosts, target \in Targets, arch \in ArchNames,
          autodesktop \in BOOLEAN, timeout \in {"None", "--timeout"},
          keep_ \in BOOLEAN, archive_dest \in {"None", "my_archives"},
          dry_run_ \in BOOLEAN, nopatch \in BOOLEAN :
         c_args = Args(host, target, arch, autodesktop, timeout, keep_,
                       archive_dest, dry_run_, nopatch)
    /\ c_env \in [platform : Platforms, qt6 : BOOLEAN, desktop_installed : BOOLEAN,
                  always_keep_archives : BOOLEAN]
    /\ c_args.host # "all_os" => c_env.platform = "linux"
    /\ c_stack = <<>>
    /\ c_calls = <<>>
    /\ c_installs = <<>>
    /\ c_dirs = {}
    /\ c_exc = "none"
    /\ c_code = <<>>
    /\ c_trace = <<>>

NextCli ==
    \/ Run
    \/ RunInstallQtEnter
    \/ RunInstallQtInputError
    \/ RunInstallQtInstall
    \/ RunInstallerRaises
    \/ RunInstallQtChain
    \/ RunInstallQtFinished
    \/ RunInstallQtReturn
    \/ RunReturns
    \/ RunExceptAqtException
    \/ RunExceptException

SpecCli == InitCli /\ [][NextCli]_vars

\* run_installer is not entered.
BatchIdle ==
    /\ dry_run = FALSE
    /\ nArchives = 0
    /\ is64 = TRUE
    /\ pkgs = <<>>
    /\ pc = "start"
    /\ listener = "none"
    /\ queue = <<>>
    /\ emitted = <<>>
    /\ pool = "none"
    /\ poolProcs = 0
    /\ maxtasks = 0
    /\ task = <<>>
    /\ firstExc = NoExc
    /\ exc = NoExc
    /\ pending = NoErr
    /\ surfaced = <<>>
    /\ enqCalls = 0
    /\ stopCalls = 0
    /\ sentBefore = {}
    /\ enospcSeen = FALSE
    /\ inFlightAtFail = {}
    /\ mainLog = <<>>
    /\ tasks = <<>>
    /\ staged = {}
    /\ extractCount = <<>>

\* ------------------------------------------------- install-qt-official
\* The parsed arguments of install-qt-official that run_install_qt_commercial
\* tests; the positional ones are optional (nargs="?") and None when left out.
OfficialArgs ==
    [override : BOOLEAN, target : {"None", "desktop"}, arch : {"None", "gcc_64"},
     version : {"None", "6.8.0"}]

\* all([args.target, args.arch, args.version])
AllGiven(a) == a.target # "None" /\ a.arch # "None" /\ a.version # "None"

\* else-branch of `if args.override`: raise CliInputError("target, arch, and
\* version are required"), inside the try statement.
RunInstallQtCommercialInputError ==
    /\ c_pc = "enter"
    /\ ~c_args.override /\ ~AllGiven(c_args)
    /\ c_exc' = "CliInputError"
    /\ c_pc' = "commercial_except"
    /\ UNCHANGED <<rest, batch, single, c_trace, c_args, c_env, c_stack, c_calls,
                   c_installs, c_dirs, c_code>>

\* CommercialInstaller(...) is constructed, from the override or from target,
\* arch and version.
RunInstallQtCommercialConstruct ==
    /\ c_pc = "enter"
    /\ c_args.override \/ AllGiven(c_args)
    /\ c_pc' = "commercial_install"
    /\ UNCHANGED <<rest, batch, single, c_trace, c_args, c_env, c_stack, c_calls,
                   c_installs, c_dirs, c_exc, c_code>>

\* commercial_installer.install(); Settings.qt_installer_cleanup()
RunInstallQtCommercialInstall ==
    /\ c_pc = "commercial_install"
    /\ c_pc' = "commercial_finally"
    /\ UNCHANGED <<rest, batch, single, c_trace, c_args, c_env, c_stack, c_calls,
                   c_installs, c_dirs, c_exc, c_code>>

\* commercial_installer.install() raises.
RunInstallQtCommercialInstallRaises ==
    /\ c_pc = "commercial_install"
    /\ \E e \in AqtExceptions \cup OtherExceptions : c_exc' = e
    /\ c_pc' = "commercial_except"
    /\ UNCHANGED <<rest, batch, single, c_trace, c_args, c_env, c_stack, c_calls,
                   c_installs, c_dirs, c_code>>

\* except Exception as e: the error is logged and the exception ends here.
RunInstallQtCommercialExcept ==
    /\ c_pc = "commercial_except"
    /\ c_trace' = Append(c_trace, <<"Error installing official installer", c_exc>>)
    /\ c_exc' = "none"
    /\ c_pc' = "commercial_finally"
    /\ UNCHANGED <<rest, batch, single, c_args, c_env, c_stack, c_calls, c_installs,
                   c_dirs, c_code>>

\* finally: "Done" is logged; run_install_qt_commercial returns.
RunInstallQtCommercialFinally ==
    /\ c_pc = "commercial_finally"
    /\ c_trace' = Append(c_trace, <<"Done">>)
    /\ c_pc' = "return"
    /\ UNCHANGED <<rest, batch, single, c_args, c_env, c_stack, c_calls, c_installs,
                   c_dirs, c_exc, c_code>>

InitOfficial ==
    /\ RestIdle
    /\ SingleIdle
    /\ BatchIdle
    /\ keep = FALSE
    /\ concurrency = 1
    /\ c_pc = "run"
    /\ c_args \in OfficialArgs
    /\ c_env = [platform |-> "linux", qt6 |-> TRUE, desktop_installed |-> FALSE,
                always_keep_archives |-> FALSE]
    /\ c_stack = <<>>
    /\ c_calls = <<>>
    /\ c_installs = <<>>
    /\ c_dirs = {}
    /\ c_exc = "none"
    /\ c_code = <<>>
    /\ c_trace = <<>>

NextOfficial ==
    \/ Run
    \/ RunInstallQtCommercialInputError
    \/ RunInstallQtCommercialConstruct
    \/ RunInstallQtCommercialInstall
    \/ RunInstallQtCommercialInstallRaises
    \/ RunInstallQtCommercialExcept
    \/ RunInstallQtCommercialFinally
    \/ RunReturns

SpecOfficial == InitOfficial /\ [][NextOfficial]_vars

\* ------------------------------------------ the choice of the 7z extractor
\* Settings.zipcmd
zipcmd == "7z"

ExternalCommands == {"7z", "my7z"}

\* subprocess.run([sevenzip, "--help"], ...): the command runs (whatever its
\* exit status), or no such file exists, or the file cannot be executed.
RunOutcomes == {"runs", "FileNotFoundError", "PermissionError"}

\* Cli._set_sevenzip(external): what it returns (ret = <<value>>) or raises.
SetSevenzip(external_) ==
    IF external_ = "None" /\ ~EXT7Z
      THEN [ret |-> <<"None">>, exc |-> "none"]
      ELSE LET cmd == IF external_ = "None" THEN zipcmd ELSE external_
           IN  CASE found[cmd] = "runs" -> [ret |-> <<cmd>>, exc |-> "none"]
                 [] found[cmd] = "FileNotFoundError" ->
                        [ret |-> <<>>, exc |-> "CliInputError"]
                 [] OTHER -> [ret |-> <<>>, exc |-> found[cmd]]

\* sevenzip = self._set_sevenzip(args.external)
RunSetSevenzip ==
    /\ sz_pc = "start"
    /\ sevenzip' = SetSevenzip(external).ret
    /\ sz_exc' = SetSevenzip(external).exc
    /\ sz_pc' = IF SetSevenzip(external).exc = "none" THEN "returned" ELSE "raised"
    /\ UNCHANGED <<staging, cli, single, batch, external, EXT7Z, found>>

\* run_installer(..., sevenzip, ...): every task gets sevenzip as its command.
DispatchCommand ==
    /\ sz_pc = "returned"
    /\ command' = sevenzip[1]
    /\ sz_pc' = "task"
    /\ UNCHANGED <<staging, cli, batch, external, EXT7Z, found, sevenzip, sz_exc,
                   w_pc, ignore_hash, max_retries, content, ext, hash, hashCalls,
                   attempt, base, calls, archive, strategies, extracted, wlog, werr,
                   proc, wmsg, steps, handlers>>

\* installer reaches the if/elif chain; the py7zr branch uses the name py7zr,
\* which is unbound where the import failed.
TakeBranch ==
    /\ sz_pc = "task"
    /\ strategies' = Append(strategies, Strategy)
    /\ werr' = IF Strategy = "py7zr" /\ EXT7Z THEN "NameError" ELSE werr
    /\ sz_pc' = "extract"
    /\ UNCHANGED <<staging, cli, batch, external, EXT7Z, found, sevenzip, sz_exc,
                   w_pc, ignore_hash, max_retries, command, content, ext, hash,
                   hashCalls, attempt, base, calls, archive, extracted, wlog,
                   proc, wmsg, steps, handlers>>

InitSzip ==
    /\ StagingIdle
    /\ CliIdle
    /\ BatchIdle
    /\ keep = FALSE
    /\ concurrency = 1
    /\ w_pc = "idle"
    /\ ignore_hash = FALSE
    /\ max_retries = 1
    /\ command = "None"
    /\ content \in Contents
    /\ ext = "7z"
    /\ hash = "unset"
    /\ hashCalls = 0
    /\ attempt = 0
    /\ base = "primary"
    /\ calls = <<>>
    /\ archive = "present"
    /\ strategies = <<>>
    /\ extracted = FALSE
    /\ wlog = <<>>
    /\ werr = "none"
    /\ proc = NoProc
    /\ wmsg = <<>>
    /\ steps = <<>>
    /\ handlers = <<>>
    /\ external \in {"None"} \cup ExternalCommands
    /\ EXT7Z \in BOOLEAN
    /\ found \in [ExternalCommands -> RunOutcomes]
    /\ sevenzip = <<>>
    /\ sz_exc = "none"
    /\ sz_pc = "start"

NextSzip ==
    \/ RunSetSevenzip
    \/ DispatchCommand
    \/ TakeBranch

SpecSzip == InitSzip /\ [][NextSzip]_vars

\* ------------------------------------- the archive files staged by a batch
StagingTasks == 1..MaxPackages

\* The file names qt_package.archive can have.
ArchiveNames == {"a.7z", "b.7z"}

\* archive: Path = archive_dest / qt_package.archive
ArchiveOf(i) == stg_archive[i]

\* The tasks a worker process is running.
StagingActive == {i \in StagingTasks : stg_pc[i] \in {"extract", "unlink"}}

\* The pool hands the tasks out in order, to at most `concurrency` processes.
StagingCanStart(i) ==
    /\ stg_pc[i] = "start"
    /\ \A j \in 1..(i - 1) : stg_pc[j] # "start"
    /\ Cardinality(StagingActive) < concurrency

\* downloadBinaryFile(url, archive, ...) writes the file `archive`.
StageDownload(i) ==
    /\ StagingCanStart(i)
    /\ stg_files' = [stg_files EXCEPT ![ArchiveOf(i)] = i]
    /\ stg_pc' = [stg_pc EXCEPT ![i] = "extract"]
    /\ UNCHANGED <<szip, cli, single, batch, stg_archive, stg_read>>

\* The download fails for good; what it wrote of `archive` stays.
StageDownloadFails(i) ==
    /\ StagingCanStart(i)
    /\ stg_files' = [stg_files EXCEPT ![ArchiveOf(i)] = i]
    /\ stg_pc' = [stg_pc EXCEPT ![i] = "failed"]
    /\ UNCHANGED <<szip, cli, single, batch, stg_archive, stg_read>>

\* The if/elif chain opens `archive` and extracts what it holds; a missing
\* file raises.
StageExtract(i) ==
    /\ stg_pc[i] = "extract"
    /\ IF stg_files[ArchiveOf(i)] = 0
         THEN /\ stg_pc' = [stg_pc EXCEPT ![i] = "failed"]
              /\ UNCHANGED stg_read
         ELSE /\ stg_pc' = [stg_pc EXCEPT ![i] = "unlink"]
              /\ stg_read' = [stg_read EXCEPT ![i] = {stg_files[ArchiveOf(i)]}]
    /\ UNCHANGED <<szip, cli, single, batch, stg_archive, stg_files>>

\* if not keep: os.unlink(archive); a missing file raises FileNotFoundError.
StageUnlink(i) ==
    /\ stg_pc[i] = "unlink"
    /\ IF keep
         THEN /\ stg_pc' = [stg_pc EXCEPT ![i] = "done"]
              /\ UNCHANGED stg_files
         ELSE IF stg_files[ArchiveOf(i)] = 0
         THEN /\ stg_pc' = [stg_pc EXCEPT ![i] = "failed"]
              /\ UNCHANGED stg_files
         ELSE /\ stg_pc' = [stg_pc EXCEPT ![i] = "done"]
              /\ stg_files' = [stg_files EXCEPT ![ArchiveOf(i)] = 0]
    /\ UNCHANGED <<szip, cli, single, batch, stg_archive, stg_read>>

InitStaging ==
    /\ SzipIdle
    /\ CliIdle
    /\ SingleIdle
    /\ BatchIdle
    /\ keep \in BOOLEAN
    /\ concurrency \in 1..MaxConcurrency
    /\ stg_archive \in [StagingTasks -> ArchiveNames]
    /\ stg_pc = [i \in StagingTasks |-> "start"]
    /\ stg_files = [n \in ArchiveNames |-> 0]
    /\ stg_read = [i \in StagingTasks |-> {}]

NextStaging ==
    \/ \E i \in StagingTasks : StageDownload(i)
    \/ \E i \in StagingTasks : StageDownloadFails(i)
    \/ \E i \in StagingTasks : StageExtract(i)
    \/ \E i \in StagingTasks : StageUnlink(i)

SpecStaging == InitStaging /\ [][NextStaging]_vars

\* ================================================================ claims
Left == pc \in {"returned", "raised"}

Emitted == Range(emitted)

NoneRunning == \A i \in Tasks : task[i] \notin Running

\* C1: on every exit path of a non-dry-run invocation after the listener was
\* started (an exception raised while constructing the pool included), the
\* sentinel is enqueued and the listener is stopped exactly once before
\* control returns to the caller.
C1_SentinelOnEveryExit ==
    (Left /\ listener # "none") =>
        /\ enqCalls = 1
        /\ stopCalls = 1
        /\ listener = "exited"

\* C2: every record a worker put on the queue before the sentinel is re-emitted
\* by the listener before the listener stops, and so before run_installer
\* returns or raises, on a successful run and on a failed one.
C2_NoRecordLost ==
    /\ listener = "exited" => sentBefore \subseteq Emitted
    /\ Left => sentBefore \subseteq Emitted

C2_Witness ==
    /\ pc = "raised" /\ listener = "exited"
    /\ Cardinality(sentBefore) >= 2
    /\ sentBefore \subseteq Emitted

\* C3: on every failure branch the pool is terminated and joined, and no worker
\* task is running, before the error reaches the caller (already when the
\* except clause has raised and the finally block begins).
C3_PoolTerminatedBeforeRaise ==
    (pending # NoErr \/ (pc = "raised" /\ exc # NoExc)) =>
        /\ pool = "terminated_joined"
        /\ NoneRunning

C3_Witness ==
    /\ pc = "raised" /\ exc # NoExc
    /\ pool = "terminated_joined"
    /\ \E i \in Tasks : task[i] = "killed"

\* C4: when the failure the pool surfaces is a PermissionError, the caller gets
\* DiskAccessNotPermitted, whatever the errno of the PermissionError.
C4_PermissionErrorClassified ==
    (pc = "raised" /\ exc.cls = "PermissionError") =>
        /\ Len(surfaced) = 1
        /\ surfaced[1].cls = "DiskAccessNotPermitted"

C4_Witness ==
    /\ pc = "raised"
    /\ exc.cls = "PermissionError" /\ exc.errno = "ENOSPC"
    /\ surfaced[1].cls = "DiskAccessNotPermitted"

\* C5 as claimed: if any worker failed with OSError(ENOSPC), the caller gets
\* OutOfDiskSpace exactly once, whatever the other workers failed with.
\* (Stated for the runs the user did not interrupt, which the claim covers.)
C5_AnyEnospcSurfaces ==
    (Left /\ enospcSeen /\ exc.cls # "KeyboardInterrupt") =>
        /\ Len(surfaced) = 1
        /\ surfaced[1].cls = "OutOfDiskSpace"

\* C5 amended: if the exception pool.starmap raises (the first failure among the
\* workers) is an OSError, not a PermissionError, with errno ENOSPC, the caller
\* gets OutOfDiskSpace exactly once, whatever the other workers were doing
\* when it failed and whatever they failed with after it.
C5_FirstEnospcSurfaces ==
    (Left /\ exc.cls = "OSError" /\ exc.errno = "ENOSPC") =>
        /\ Len(surfaced) = 1
        /\ surfaced[1].cls = "OutOfDiskSpace"

C5_Witness ==
    /\ pc = "raised"
    /\ exc.cls = "OSError" /\ exc.errno = "ENOSPC"
    /\ inFlightAtFail # {}
    /\ \E j \in Tasks : j # exc.origin /\ task[j] = "failed"
    /\ surfaced[1].cls = "OutOfDiskSpace"

\* C6: an invocation surfaces at most one error, and exactly one when one or
\* more worker tasks failed, however many failed.
C6_ExactlyOneError ==
    /\ Len(surfaced) <= 1
    /\ (Left /\ \E i \in Tasks : task[i] = "failed") => Len(surfaced) = 1
    /\ pc = "raised" => Len(surfaced) = 1
    /\ pc = "returned" => Len(surfaced) = 0

C6_Witness ==
    /\ pc = "raised"
    /\ Cardinality({i \in Tasks : task[i] = "failed"}) >= 2
    /\ Len(surfaced) = 1

\* C7: once a worker task has failed while other tasks are in flight,
\* run_installer stops blocking in starmap: it can go on to terminate the pool
\* and raise without waiting for the tasks in flight to finish.
C7_StopsAtFirstFailure ==
    (/\ pc = "starmap"
     /\ firstExc # NoExc
     /\ \E j \in Tasks : task[j] \in Running) => ENABLED StarmapRaises

\* C8: a KeyboardInterrupt ends in a terminated pool and CliKeyboardInterrupt;
\* the raw KeyboardInterrupt never reaches the caller.
C8_InterruptClassified ==
    /\ \A k \in 1..Len(surfaced) : surfaced[k].cls # "KeyboardInterrupt"
    /\ (pc = "raised" /\ exc.cls = "KeyboardInterrupt") =>
        /\ Len(surfaced) = 1
        /\ surfaced[1].cls = "CliKeyboardInterrupt"
        /\ pool = "terminated_joined"

C8_Witness ==
    /\ pc = "raised" /\ exc.cls = "KeyboardInterrupt"
    /\ surfaced[1].cls = "CliKeyboardInterrupt"
    /\ \E i \in Tasks : task[i] = "killed"

\* C9: a MemoryError surfaces as OutOfMemory whose suggested actions advise
\* lowering the concurrency exactly when Settings.concurrency > 1, advise
\* freeing memory otherwise, and always advise an external extraction tool.
C9_OutOfMemoryAdvice ==
    (pc = "raised" /\ exc.cls = "MemoryError") =>
        /\ Len(surfaced) = 1
        /\ surfaced[1].cls = "OutOfMemory"
        /\ "reduce_concurrency" \in Range(surfaced[1].suggested) <=> concurrency > 1
        /\ "free_up_memory" \in Range(surfaced[1].suggested) <=> ~(concurrency > 1)
        /\ "try_external_7z" \in Range(surfaced[1].suggested)

C9_Witness ==
    /\ pc = "raised" /\ exc.cls = "MemoryError"
    /\ concurrency = 1
    /\ surfaced[1].suggested = <<"free_up_memory", "try_external_7z">>

\* C10: an OSError that is no PermissionError and whose errno is not ENOSPC
\* reaches the caller as the same exception, not wrapped, after the pool was
\* terminated.
C10_OtherOSErrorUnchanged ==
    (pc = "raised" /\ exc.cls = "OSError" /\ exc.errno # "ENOSPC") =>
        /\ Len(surfaced) = 1
        /\ surfaced[1].cls = "OSError"
        /\ surfaced[1].errno = exc.errno
        /\ surfaced[1].origin = exc.origin
        /\ surfaced[1].cause = "none"
        /\ exc = firstExc
        /\ pool = "terminated_joined"

C10_Witness ==
    /\ pc = "raised"
    /\ exc.cls = "OSError" /\ exc.errno = "EIO"
    /\ surfaced = <<Err("OSError", "EIO", exc.origin, "none", <<>>)>>
    /\ exc.origin \in Tasks

C16_DryRunTouchesNothing ==
    dry_run =>
        /\ pc \in {"start", "returned"}
        /\ listener = "none" /\ queue = <<>> /\ emitted = <<>>
        /\ pool = "none" /\ poolProcs = 0
        /\ tasks = <<>> /\ task = <<>>
        /\ staged = {}
        /\ \A p \in Archives : extractCount[p] = 0
        /\ surfaced = <<>>

C16_Witness ==
    /\ dry_run /\ pc = "returned"
    /\ nArchives >= 1
    /\ listener = "none" /\ pool = "none" /\ tasks = <<>>

C20_OneTaskPerPackage ==
    /\ (~dry_run /\ pc \notin {"start", "build"}) =>
        /\ Len(tasks) = nArchives
        /\ \A i \in Archives :
            /\ tasks[i].arc = i
            /\ tasks[i].base_dir = "base_dir"
            /\ tasks[i].command = "sevenzip"
            /\ tasks[i].queue = "queue"
            /\ tasks[i].archive_dest = "archive_dest"
            /\ tasks[i].settings_ini = "Settings.configfile"
            /\ tasks[i].keep = keep
    /\ (~dry_run /\ pc = "returned") =>
        /\ \A p \in Archives : extractCount[p] = 1
        /\ \A i \in Tasks : task[i] = "done"

C20_Witness ==
    /\ ~dry_run /\ pc = "returned"
    /\ nArchives >= 2
    /\ \A p \in Archives : extractCount[p] = 1

Last(s) == s[Len(s)]

ChecksumFailures ==
    Cardinality({k \in 1..Len(calls) : calls[k].outcome = "checksum"})

DownloadErrors == {"ArchiveChecksumError", "ArchiveDownloadError", "OSError"}

\* C12: the download is attempted at most max_retries_on_checksum_error times
\* on checksum mismatches, ArchiveChecksumError leaves the task only when that
\* budget is used up, a mismatch within the budget leaves the task downloading
\* and a matching download ends the download phase without a download error;
\* any other error of the downloader leaves the task at once, without a
\* further attempt.
C12_ChecksumRetryBudget ==
    /\ ChecksumFailures <= max_retries
    /\ werr = "ArchiveChecksumError" => ChecksumFailures = max_retries
    /\ (calls # <<>> /\ Last(calls).outcome = "checksum"
            /\ ChecksumFailures < max_retries)
          => (w_pc = "download" /\ werr = "none")
    /\ (calls # <<>> /\ Last(calls).outcome = "ok") =>
          (werr \in DownloadErrors => (werr = "OSError" /\ strategies # <<>>))
    /\ \A k \in 1..Len(calls) :
          /\ calls[k].outcome = "oserror"
                => (k = Len(calls) /\ w_pc = "failed" /\ werr = "OSError")
          /\ (calls[k].outcome = "connection" /\ calls[k].base = "fallback")
                => (k = Len(calls) /\ w_pc = "failed"
                      /\ werr = "ArchiveDownloadError")

C12_Witness ==
    /\ max_retries >= 2
    /\ werr = "ArchiveChecksumError"
    /\ ChecksumFailures = max_retries

\* C13: the download attempted after a checksum mismatch uses the base URL
\* that produced the mismatch, the fallback mirror included.
C13_ChecksumRetrySameUrl ==
    \A k \in 1..(Len(calls) - 1) :
        calls[k].outcome = "checksum" => calls[k + 1].base = calls[k].base

\* C14: with ignore_hash, get_hash is never called, every download gets no
\* expected hash and no download fails on a comparison; without it, get_hash
\* is called at most once, has been called once before any download, and
\* every download gets the fetched value.
C14_HashFetchedOnceOrNever ==
    /\ ignore_hash =>
          /\ hashCalls = 0
          /\ \A k \in 1..Len(calls) :
                calls[k].hash = "None" /\ calls[k].outcome # "checksum"
    /\ ~ignore_hash =>
          /\ hashCalls <= 1
          /\ calls # <<>> => hashCalls = 1
          /\ \A k \in 1..Len(calls) : calls[k].hash = "H"

C14_Witness ==
    /\ ~ignore_hash
    /\ w_pc = "done"
    /\ Len(calls) >= 3
    /\ hashCalls = 1

\* C18: at most one extraction strategy runs per task, exactly one once the
\* extraction is over, and it is tar for a tar container, else zip for a zip
\* container, else the built-in 7z library when no command is given, else
\* the external command; the choice depends on content and command only.
C18_StrategyByContent ==
    /\ Len(strategies) <= 1
    /\ w_pc \in {"unlink", "log", "done"} => Len(strategies) = 1
    /\ strategies # <<>> =>
          strategies[1] =
            CASE content \in {"tar", "tar+zip"} -> "tar"
              [] content = "zip" -> "zip"
              [] content \in {"7z", "other"} /\ command = "None" -> "py7zr"
              [] content \in {"7z", "other"} /\ command # "None" -> "external"

C18_Witness ==
    /\ w_pc = "done"
    /\ content = "tar+zip"
    /\ ext = "zip"
    /\ command # "None"
    /\ strategies = <<"tar">>

\* ------------------------------------------------------- claims, continued
\* C21: the listener re-emits the records of one worker task in the order the
\* task logged them (the download URL before the completion line, each once),
\* whatever the interleaving of the tasks.
C21_WorkerOrderPreserved ==
    \A k, l \in 1..Len(emitted) :
        (k < l /\ emitted[k].task = emitted[l].task) =>
            (emitted[k].msg = "url" /\ emitted[l].msg = "finished")

\* Records of two tasks interleave: a record of one task lies between the two
\* records of another.
C21_Witness ==
    \E k, l, m \in 1..Len(emitted) :
        /\ k < l /\ l < m
        /\ emitted[k].task = emitted[m].task
        /\ emitted[l].task # emitted[k].task

C23_ListenerFirstStopLast ==
    /\ pool # "none" => listener # "none"
    /\ (\E i \in Tasks : task[i] # "pending") => listener # "none"
    /\ (queue # <<>> \/ emitted # <<>>) => listener # "none"
    /\ (Left /\ ~dry_run) => (stopCalls >= 1 /\ listener = "exited")

\* C24: when the external command has exited with a non-zero status, the task
\* fails with ArchiveExtractionError, its message carries the exit code and
\* what the command wrote to stdout and to stderr, the archive is not deleted
\* and no completion line is logged.
C24_ExternalFailureCarriesOutput ==
    proc # NoProc =>
        /\ w_pc = "failed"
        /\ werr = "ArchiveExtractionError"
        /\ <<"Extraction error", proc.returncode>> \in Range(wmsg)
        /\ proc.out # "" => proc.out \in Range(wmsg)
        /\ proc.err # "" => proc.err \in Range(wmsg)
        /\ archive # "deleted"
        /\ <<"Finished installation">> \notin Range(wlog)

\* C25: a file that is neither tar, zip nor 7z, with no command given, is
\* never extracted; once the download is over the task fails in the 7z
\* library with an error that is no download or checksum error, after which
\* no further download is made; run_installer's clause for it is the last one,
\* which terminates the pool and re-raises the same exception.
C25_UnknownFormatIsFatal ==
    (content = "other" /\ command = "None") =>
        /\ ~extracted
        /\ w_pc \notin {"unlink", "log", "done"}
        /\ strategies # <<>> =>
              /\ strategies = <<"py7zr">>
              /\ w_pc = "failed"
              /\ werr = "Bad7zFile"
              /\ werr \notin {"ArchiveDownloadError", "ArchiveChecksumError"}
              /\ Last(calls).outcome = "ok"
              /\ Clause(Exc(werr, "none", 1)) = "Exception"
              /\ OnException(Exc(werr, "none", 1)).cls = werr

C25_Witness ==
    /\ content = "other" /\ command = "None"
    /\ werr = "Bad7zFile"
    /\ Len(calls) >= 2
    /\ archive = "present"

\* ----------------------------------------------- claims on the command line
\* C26: run_install_qt is entered at most twice in one run, the second time
\* only from a first entry with autodesktop set, and then with autodesktop
\* off, host the effective OS name of the first entry and target "desktop";
\* the chained entry asks for no desktop arch and chains no further.
C26_AutodesktopRecursesOnce ==
    /\ Len(c_calls) <= 2
    /\ Len(c_stack) <= 2
    /\ Len(c_calls) = 2 =>
          /\ c_calls[1].autodesktop
          /\ ~c_calls[2].autodesktop
          /\ c_calls[2].host = GetEffectiveOsName(c_calls[1].host)
          /\ c_calls[2].target = "desktop"
    /\ Len(c_stack) = 2 =>
          /\ ~c_stack[2].should_autoinstall
          /\ c_stack[2].autodesk_arch = "None"

C26_Witness ==
    /\ c_pc = "done" /\ c_code = <<0>>
    /\ Len(c_calls) = 2
    /\ c_calls[1].host = "all_os"
    /\ c_calls[2].host = "mac"
    /\ Len(c_installs) = 2

C28_ThreeBehaviours ==
    \A k \in 1..Len(c_installs) :
        LET r == c_installs[k]
            given == c_calls[k].archive_dest
        IN  /\ (given = "None" /\ ~r.keep) => r.archive_dest = <<"temp_dir", k>>
            /\ (given = "None" /\ r.keep) =>
                  r.archive_dest = "Settings.archive_download_location"
            /\ (given # "None" /\ r.keep) =>
                  (r.archive_dest = given /\ given \in c_dirs)
            /\ (given # "None" /\ ~r.keep) =>
                  ~(r.archive_dest = given /\ r.staged /\ r.deleted)

\* C29: with --timeout given, the worker tasks of the install use that value
\* as their connection timeout, as the metadata fetch does.
C29_TimeoutReachesWorkers ==
    \A k \in 1..Len(c_installs) :
        (c_calls[k].timeout # "None" /\ ~c_installs[k].dry_run) =>
            /\ c_installs[k].metadata_timeout[1] = c_calls[k].timeout
            /\ c_installs[k].installer_timeout[1] = c_calls[k].timeout

\* --------------------------------------------- claims on one task, continued
\* The place of a step in the body of installer.
StepRank(st) ==
    CASE st = "setup" -> 1
      [] st = "hash" -> 2
      [] st = "download" -> 3
      [] st = "extract" -> 4
      [] st = "unlink" -> 5
      [] st = "log" -> 6

\* C30: the steps of a task run in the order setup, hash, download (possibly
\* several attempts), extract, unlink, log, none skipped and none but the
\* download repeated; the archive is deleted exactly when the unlink step was
\* reached (the extraction having succeeded) with keep off, and the completion
\* line is logged only after that step.
C30_StepOrder ==
    /\ steps # <<>> => steps[1] = "setup"
    /\ \A k \in 1..(Len(steps) - 1) :
          \/ StepRank(steps[k + 1]) = StepRank(steps[k]) + 1
          \/ steps[k] = "download" /\ steps[k + 1] = "download"
    /\ archive = "deleted" <=> ("unlink" \in Range(steps) /\ ~keep)
    /\ "unlink" \in Range(steps) => extracted
    /\ archive = "deleted" => extracted
    /\ <<"Finished installation">> \in Range(wlog) =>
          /\ steps[Len(steps)] = "log"
          /\ steps[Len(steps) - 1] = "unlink"
          /\ (keep \/ archive = "deleted")
    /\ w_pc = "failed" => archive # "deleted"

C30_Witness ==
    /\ w_pc = "done"
    /\ ~keep
    /\ archive = "deleted"
    /\ steps = <<"setup", "hash", "download", "download", "extract", "unlink", "log">>

\* C31: once the handlers of the root logger have been replaced and while the
\* task runs, the root logger has the queue handler and no other handler,
\* however many handlers it had before.
C31_OnlyQueueHandler ==
    w_pc \in {"hash", "download", "extract", "unlink", "log", "failed"} =>
        handlers = <<Qh>>

\* The classes a step raises by itself.
StepErrors(st) ==
    CASE st = "hash" -> {"ChecksumDownloadFailure"}
      [] st = "download" -> DownloadErrors
      [] st = "extract" -> {"Exception", "OSError", "Bad7zFile"}
      [] OTHER -> {}

\* A failed task has cleaned nothing up: the staged archive is not deleted,
\* the completion line is not logged, the queue handler is still installed.
NoCleanup ==
    /\ archive # "deleted"
    /\ <<"Finished installation">> \notin Range(wlog)
    /\ Qh \in Range(handlers)
    /\ Last(steps) \in {"hash", "download", "extract"}

\* C32: a task that failed in a step has cleaned nothing up, and the exception
\* that leaves it is the one the step raised, except that a non-zero exit of
\* the external command leaves it as ArchiveExtractionError.
C32_FailurePropagatesUntranslated ==
    w_pc = "failed" =>
        /\ NoCleanup
        /\ IF proc # NoProc
             THEN werr = "ArchiveExtractionError"
             ELSE werr \in StepErrors(Last(steps))

\* The part of C32 left when the class of the exception is set aside.
C32_NoCleanupOnFailure == w_pc = "failed" => NoCleanup

SentinelSent == enqCalls + stopCalls >= 1

\* C33: when a sentinel is put on the queue the pool has been joined (after
\* close or after terminate) and no task is running, no record follows a
\* sentinel in the queue, and every record ever put on the queue was put
\* there before the first sentinel.
C33_SentinelAfterWorkersStopped ==
    /\ SentinelSent =>
          /\ pool \in {"closed_joined", "terminated_joined"}
          /\ \A i \in Tasks : task[i] \notin Running
    /\ \A k \in 1..Len(queue) :
          queue[k] = Sentinel => \A j \in k..Len(queue) : queue[j] = Sentinel
    /\ (Range(queue) \ {Sentinel}) \cup Emitted \subseteq sentBefore

C33_Witness ==
    /\ enqCalls = 1 /\ stopCalls = 1
    /\ pool = "terminated_joined"
    /\ \E i \in Tasks : task[i] = "killed"
    /\ \E i \in Tasks : task[i] = "done"
    /\ sentBefore # {}

\* From its download to the end of its extraction a task's staged file holds
\* what the task downloaded, and the task extracted nothing else.
StagedArchiveUntouched ==
    \A i \in StagingTasks :
        /\ stg_pc[i] = "extract" => stg_files[ArchiveOf(i)] = i
        /\ stg_read[i] \subseteq {i}

DistinctArchiveNames ==
    \A i, j \in StagingTasks : i # j => ArchiveOf(i) # ArchiveOf(j)

\* C34: in any batch, no other task overwrites or deletes the staged archive
\* file of a task between the task's download and the end of its extraction.
C34_StagedArchiveUntouched == stg_pc # <<>> => StagedArchiveUntouched

\* The part of C34 that holds: batches whose archive file names all differ.
C34_UntouchedWhenNamesDiffer ==
    (stg_pc # <<>> /\ DistinctArchiveNames) => StagedArchiveUntouched

\* C36: in a dry run of install-qt, whatever nopatch and autodesktop are,
\* run_install_qt calls run_installer once and does nothing after it:
\* Updater.update is not called, run_install_qt does not call itself for the
\* desktop Qt, and "Finished installation" is not logged.
C36_DryRunStopsAfterRunInstaller ==
    (c_pc # "idle" /\ c_args.dry_run) =>
        /\ c_trace = <<>>
        /\ Len(c_calls) <= 1
        /\ Len(c_installs) <= 1
        /\ \A k \in 1..Len(c_installs) : c_installs[k].dry_run

C36_Witness ==
    /\ c_pc = "done"
    /\ c_code = <<0>>
    /\ c_args.dry_run /\ c_args.autodesktop /\ ~c_args.nopatch
    /\ c_args.target = "android"
    /\ Len(c_installs) = 1
    /\ c_trace = <<>>

\* C37: install-qt-official without --override and without one of target,
\* arch and version ends with exit code 1.
C37_MissingArgsExitOne ==
    (c_pc = "done" /\ ~c_args.override /\ ~AllGiven(c_args)) => c_code = <<1>>

\* What the code does instead: the error is logged, then "Done", and Cli.run
\* returns 0.
C37_MissingArgsLoggedExitZero ==
    (c_pc = "done" /\ ~c_args.override /\ ~AllGiven(c_args)) =>
        /\ c_code = <<0>>
        /\ c_trace = <<<<"Error installing official installer", "CliInputError">>,
                       <<"Done">>>>

BuiltinCase == external = "None" /\ ~EXT7Z

\* _set_sevenzip returns None exactly in the built-in case, and no task takes
\* the py7zr branch where the import of py7zr failed.
BuiltinOnlyWhenLoaded ==
    /\ sevenzip # <<>> => (sevenzip = <<"None">> <=> BuiltinCase)
    /\ "py7zr" \in Range(strategies) => ~EXT7Z
    /\ werr # "NameError"

\* C35: _set_sevenzip returns None exactly when no external command was given
\* and py7zr loaded; otherwise it returns a command that was run or raises
\* CliInputError; no task takes the py7zr branch with EXT7Z true.
C35_BuiltinOnlyWhenLoaded ==
    /\ BuiltinOnlyWhenLoaded
    /\ (sz_pc \notin {"idle", "start"} /\ ~BuiltinCase) =>
          \/ sevenzip # <<>> /\ found[sevenzip[1]] = "runs"
          \/ sz_exc = "CliInputError"

\* The part of C35 that holds whatever the command does when it is run.
C35_NoBuiltinBranchWithoutLibrary == BuiltinOnlyWhenLoaded

\* C38: every invocation of run_installer comes to its end, returning or
\* raising, when the listener drains the queue and every task either ends or
\* can be killed by terminating the pool.
C38_Terminates == <>Left

\* A stored failure of one task does not end the wait for the others.
C38_FailureEndsTheRun == (firstExc # NoExc) ~> Left

====
